---- MODULE Spec2Model ----
(***************************************************************************)
(* Model of the svoyak_bot game session (src/src/gamestate.rs): the        *)
(* GameState struct and every public handler, each handler translated as   *)
(* a function from (session, arguments) to (session, returned intents).    *)
(***************************************************************************)
EXTENDS Integers, Sequences, FiniteSets, TLC

\* ------------------------------------------------------------------ bounds

\* Scores are i64 in the source; the model keeps every score in
\* -MaxScore..MaxScore by refusing a step that would leave the range.
MaxScore == 1

\* current_tour is a usize that next_tour increments without limit; the model
\* stops incrementing at MaxTour (one past the last tour that does not exist).
MaxTour == 2

\* ------------------------------------------------------- fixture (inputs)

\* Option<Player>::None and "no user"; user ids are positive.
None == 0

\* i64::MAX. TLC's integers are narrower than the source's, so the two widths
\* are scaled: every cost, score and tier of the model lies below i64_MAX, and
\* a usize input above it stands for a usize above 2^63 - 1.
i64_MAX == 1000

\* The admin identity given to GameState::new (tests: UserId::from(1)).
admin_user == 1

\* Telegram user ids that send inputs. The admin may join as a player too.
UserIds == {1, 2, 3}

\* Display names, and the (identity, name) pairs that try to join: two players,
\* and a third request that collides with the first by name and with the second
\* by identity. NameInputs are the names typed in commands.
Names == {"new_1", "new_2"}
JoinInputs == { <<2, "new_1">>, <<3, "new_2">>, <<3, "new_1">> }
NameInputs == Names \cup {"nobody"}

\* questions_per_topic given to GameState::new.
questions_per_topic == 2

\* QuestionsStorage::get_tours(): multiplier and ordered topics of each tour.
tours == << [multiplier |-> 1, topics |-> <<"Sport", "Movies">>],
            [multiplier |-> 2, topics |-> <<"Music">>] >>

\* QuestionsStorage::get_manual_questions(), get_auctions(), get_cats_in_bags().
manual_questions == { <<"Movies", 2>> }
auctions == { <<"Sport", 2>> }
cats_in_bags == << [old_topic |-> "Movies", cost |-> 1, new_topic |-> "CatInBag"] >>

TopicInputs == {"Sport", "Movies", "Music", "Rock'n'roll"}
CostInputs == {1, 2, 4}
AuctionCostInputs == {1, 2, i64_MAX + 1}
ScoreInputs == {0, 1}

\* ------------------------------------------------------------- questions

\* A Question value: its text is identified by where it came from; image and
\* the text length decide the delay chosen by timeout().
Question(id, image, len) == [id |-> id, image |-> image, len |-> len]

\* QuestionsStorage::get(topic, difficulty): Some(question) or None (some = FALSE).
StorageTopics == {"Sport", "Movies", "Music"}
StorageGet(topic, difficulty) ==
    IF topic \in StorageTopics /\ difficulty \in 1..questions_per_topic
    THEN [some |-> TRUE,
          question |-> Question(<<topic, difficulty>>,
                                topic = "Music" /\ difficulty = 2,
                                IF topic = "Sport" THEN 50
                                ELSE IF topic = "Movies" THEN 200 ELSE 300)]
    ELSE [some |-> FALSE]

\* A question source handed to select_question, given by the keys it holds: the
\* source the session was built from, or one that has since lost an entry.
FullStorage == StorageTopics \X (1..questions_per_topic)

Storages == {FullStorage, FullStorage \ {<<"Sport", 1>>}}

StorageGetFrom(questions_storage, topic, difficulty) ==
    IF <<topic, difficulty>> \in questions_storage
    THEN StorageGet(topic, difficulty)
    ELSE [some |-> FALSE]

\* ---------------------------------------------------------------- State

WaitingForPlayersToJoin == [tag |-> "WaitingForPlayersToJoin"]
WaitingForTopic == [tag |-> "WaitingForTopic"]
WaitingForQuestion == [tag |-> "WaitingForQuestion"]
Pause == [tag |-> "Pause"]
BeforeQuestionAsked(q, cost) == [tag |-> "BeforeQuestionAsked", question |-> q, cost |-> cost]
Falsestart(q, cost) == [tag |-> "Falsestart", question |-> q, cost |-> cost]
CanAnswer(q, cost) == [tag |-> "CanAnswer", question |-> q, cost |-> cost]
WaitingForAuction(q) == [tag |-> "WaitingForAuction", question |-> q]
Answering(q, cost, anyone) ==
    [tag |-> "Answering", question |-> q, cost |-> cost, anyone |-> anyone]
CatInBagChoosingPlayer(topic, q) ==
    [tag |-> "CatInBagChoosingPlayer", topic |-> topic, question |-> q]
CatInBagChoosingCost(q) == [tag |-> "CatInBagChoosingCost", question |-> q]

\* The variants in which a selected question is in play.
LiveTags == {"BeforeQuestionAsked", "Falsestart", "CanAnswer", "Answering",
             "WaitingForAuction", "CatInBagChoosingPlayer", "CatInBagChoosingCost"}

\* ------------------------------------------------------------ UiRequest

SendTextToMainChat(text) == [t |-> "SendTextToMainChat", text |-> text]
SendImage == [t |-> "SendImage"]
Timeout(text, delay) == [t |-> "Timeout", text |-> text, delay |-> delay]
ChooseTopic(name, topics) == [t |-> "ChooseTopic", name |-> name, topics |-> topics]
ChooseQuestion(topic, costs) == [t |-> "ChooseQuestion", topic |-> topic, costs |-> costs]
AskAdminYesNo == [t |-> "AskAdminYesNo"]
SendToAdmin == [t |-> "SendToAdmin"]
SendScoreTable(table) == [t |-> "SendScoreTable", table |-> table]
StopTimer == [t |-> "StopTimer"]
CatInBagChoosePlayer(ps) == [t |-> "CatInBagChoosePlayer", players |-> ps]
CatInBagChooseCost(costs) == [t |-> "CatInBagChooseCost", costs |-> costs]

\* ------------------------------------------------------------ variables

VARIABLES
    state,                              \* State
    players,                            \* HashMap<Player, i64>: id -> [name, score]
    current_player,                     \* Option<Player> (an id, or None)
    player_which_chose_question,        \* Option<Player>
    questions,                          \* Vec<(String, Vec<usize>)>
    players_falsestarted,               \* HashSet<Player>
    players_answered_current_question,  \* HashSet<Player>
    current_tour,                       \* usize
    current_multiplier,                 \* usize
    panicked,                           \* a panic!/unwrap failure was reached
    picker,                             \* history: who selected the question now in play
    buzzer,                             \* history: whose buzz opened the judgment now pending
    call,                               \* arguments of a constructor or rendering call under study
    result,                             \* what that call returned (None before it is made)
    new_timers_stream,                  \* TimeoutStream: timers and cancels sent, not yet received
    inflight_timer,                     \* TimeoutStream: Option<timer>
    submitted,                          \* history: everything sent to the TimeoutStream, in order
    events,                             \* history: the timers whose timeout event was delivered
    shared_state,                       \* main.rs: the Arc<Mutex<State>> of the threaded path
    global_timer_id,                    \* main.rs: the id the next timer thread gets
    threads,                            \* main.rs: the timer threads, each with its position
    episodes                            \* history: entries into Answering for the question in play

\* The call under study has not been made, or has returned ret.
NotCalled == [made |-> FALSE]
Returned(ret) == [made |-> TRUE, ret |-> ret]

gvars == <<state, players, current_player, player_which_chose_question, questions,
           players_falsestarted, players_answered_current_question, current_tour,
           current_multiplier, panicked>>
\* The variables of the pure-function studies, of the TimeoutStream and of the
\* threaded timer path.
cvars == <<call, result>>
tvars == <<new_timers_stream, inflight_timer, submitted, events>>
mvars == <<shared_state, global_timer_id, threads>>
vars == <<gvars, picker, buzzer, cvars, tvars, mvars, episodes>>

\* No timer has been sent and no timer thread started.
NoTimers ==
    /\ new_timers_stream = << >>
    /\ inflight_timer = [some |-> FALSE]
    /\ submitted = << >>
    /\ events = << >>

NoThreads ==
    /\ shared_state = [tag |-> "WaitingForPlayersToJoin"]
    /\ global_timer_id = 0
    /\ threads = << >>

\* Answering episodes are counted for a live question only (LiveSpec).
NoEpisodes == episodes = 0

\* The session as one value, for the handlers below.
GS == [state |-> state, players |-> players, current_player |-> current_player,
       player_which_chose_question |-> player_which_chose_question,
       questions |-> questions, players_falsestarted |-> players_falsestarted,
       players_answered_current_question |-> players_answered_current_question,
       current_tour |-> current_tour, current_multiplier |-> current_multiplier,
       panicked |-> panicked]

\* What a handler returns: the session after the call and the intent list.
Ret(S, res) == [gs |-> S, res |-> res]

\* GameState::new on the fixture (every topic and tier is in the storage).
NewGameState ==
    [state |-> WaitingForPlayersToJoin, players |-> << >>, current_player |-> None,
     player_which_chose_question |-> None, questions |-> << >>,
     players_falsestarted |-> {}, players_answered_current_question |-> {},
     current_tour |-> 0, current_multiplier |-> 0, panicked |-> FALSE]

\* ------------------------------------------------------------- helpers

Contains(costs, cost) == \E i \in 1..Len(costs) : costs[i] = cost
Retain(costs, cost) == SelectSeq(costs, LAMBDA e : e # cost)

\* Variant for sensitivity analysis: the answered set survives the question.
set_state_keeping_answered(S, st) ==
    IF st.tag = "WaitingForQuestion"
    THEN [S EXCEPT !.state = st, !.players_falsestarted = {}]
    ELSE [S EXCEPT !.state = st]

set_state(S, st) ==
    IF st.tag = "WaitingForQuestion"
    THEN [S EXCEPT !.state = st, !.players_falsestarted = {},
                   !.players_answered_current_question = {}]
    ELSE [S EXCEPT !.state = st]

find_player(S, id) == IF id \in DOMAIN S.players THEN id ELSE None

find_player_by_name(S, name) ==
    IF \E p \in DOMAIN S.players : S.players[p].name = name
    THEN CHOOSE p \in DOMAIN S.players : S.players[p].name = name
    ELSE None

\* Variant for sensitivity analysis: any caller passes while somebody has the turn.
is_current_player_any_caller(S, id) == S.current_player # None

is_current_player(S, id) == S.current_player # None /\ S.current_player = id

\* Variant for sensitivity analysis: the manual flag is not honoured.
is_manual_never(cur_topic, cur_cost) == FALSE

is_manual(cur_topic, cur_cost) == <<cur_topic, cur_cost>> \in manual_questions

is_auction(cur_topic, cur_cost) == <<cur_topic, cur_cost>> \in auctions

\* Some((new_topic, question)) of the first matching entry, or None (some = FALSE).
is_cat_in_bag(cur_topic, cur_cost) ==
    LET hits == { i \in 1..Len(cats_in_bags) :
                    cats_in_bags[i].old_topic = cur_topic /\ cats_in_bags[i].cost = cur_cost }
    IN IF hits = {} THEN [some |-> FALSE]
       ELSE LET i == CHOOSE j \in hits : \A k \in hits : j <= k
            IN [some |-> TRUE, new_topic |-> cats_in_bags[i].new_topic,
                question |-> Question(<<"cat", i>>, FALSE, 50)]

format_question(question) ==
    (IF question.image THEN <<SendImage>> ELSE << >>)
        \o <<SendTextToMainChat("question")>>

\* Variant for sensitivity analysis: the cost is applied to every player.
update_current_player_score_everyone(S, cost) ==
    IF S.current_player # None /\ S.current_player \in DOMAIN S.players
    THEN [ok |-> TRUE,
          gs |-> [S EXCEPT !.players = [p \in DOMAIN @ |->
                                           [@[p] EXCEPT !.score = @ + cost]]]]
    ELSE [ok |-> FALSE, gs |-> S]

\* Ok(session) with the current player's score changed by cost, or Err.
update_current_player_score(S, cost) ==
    IF S.current_player # None /\ S.current_player \in DOMAIN S.players
    THEN [ok |-> TRUE,
          gs |-> [S EXCEPT !.players[S.current_player].score = @ + cost]]
    ELSE [ok |-> FALSE, gs |-> S]

\* Variant for sensitivity analysis: the board is cleared only when the tour exists.
reload_available_questions_keeping_board(S) ==
    IF S.current_tour + 1 \in 1..Len(tours)
    THEN LET tour == tours[S.current_tour + 1]
         IN [S EXCEPT !.current_multiplier = tour.multiplier,
                      !.questions =
                          [i \in 1..Len(tour.topics) |->
                              [topic |-> tour.topics[i],
                               costs |-> [k \in 1..questions_per_topic |->
                                              k * tour.multiplier]]]]
    ELSE S

reload_available_questions(S) ==
    IF S.current_tour + 1 \in 1..Len(tours)
    THEN LET tour == tours[S.current_tour + 1]
         IN [S EXCEPT !.current_multiplier = tour.multiplier,
                      !.questions =
                          [i \in 1..Len(tour.topics) |->
                              [topic |-> tour.topics[i],
                               costs |-> [k \in 1..questions_per_topic |->
                                              k * tour.multiplier]]]]
    ELSE [S EXCEPT !.questions = << >>]

\* Variant for sensitivity analysis: the table lists the taken costs.
make_score_table_of_taken(S) ==
    [scores |-> [i \in 1..questions_per_topic |-> i * S.current_multiplier],
     data |-> [i \in 1..Len(S.questions) |->
                  [name |-> S.questions[i].topic,
                   questions |-> SelectSeq([k \in 1..questions_per_topic |->
                                               k * S.current_multiplier],
                                           LAMBDA c : ~Contains(S.questions[i].costs, c))]]]

make_score_table(S) ==
    [scores |-> [i \in 1..questions_per_topic |-> i * S.current_multiplier],
     data |-> [i \in 1..Len(S.questions) |->
                  [name |-> S.questions[i].topic, questions |-> S.questions[i].costs]]]

\* ------------------------------------------------------------- handlers

\* Variant for sensitivity analysis: players may join at any time.
add_player_at_any_time(S, new_user, name) ==
    IF find_player(S, new_user) # None
    THEN Ret(S, <<SendTextToMainChat("player already exists")>>)
    ELSE IF find_player_by_name(S, name) # None
    THEN Ret(S, <<SendTextToMainChat("name already exists")>>)
    ELSE Ret([S EXCEPT !.players = (new_user :> [name |-> name, score |-> 0]) @@ @],
             <<SendTextToMainChat("hello")>>)

\* Variant for sensitivity analysis: only the identity is checked on joining.
add_player_ignoring_names(S, new_user, name) ==
    IF S.state.tag # "WaitingForPlayersToJoin" THEN Ret(S, << >>)
    ELSE IF find_player(S, new_user) # None
    THEN Ret(S, <<SendTextToMainChat("player already exists")>>)
    ELSE Ret([S EXCEPT !.players = (new_user :> [name |-> name, score |-> 0]) @@ @],
             <<SendTextToMainChat("hello")>>)

add_player(S, new_user, name) ==
    IF S.state.tag # "WaitingForPlayersToJoin" THEN Ret(S, << >>)
    ELSE IF find_player(S, new_user) # None
    THEN Ret(S, <<SendTextToMainChat("player already exists")>>)
    ELSE IF find_player_by_name(S, name) # None
    THEN Ret(S, <<SendTextToMainChat("name already exists")>>)
    ELSE Ret([S EXCEPT !.players = (new_user :> [name |-> name, score |-> 0]) @@ @],
             <<SendTextToMainChat("hello")>>)

\* Variant for sensitivity analysis: the game starts with an empty roster too.
start_without_players(S, user, first) ==
    IF user # admin_user THEN Ret(S, << >>)
    ELSE IF S.state.tag # "WaitingForPlayersToJoin" THEN Ret(S, << >>)
    ELSE LET S1 == [S EXCEPT !.current_player = first]
         IN Ret(set_state(reload_available_questions([S1 EXCEPT !.current_tour = 0]),
                          Pause),
                <<SendTextToMainChat("greeting"), SendTextToMainChat("game starts")>>)

\* first is self.players.keys().next(): any key of the hash map, None if empty.
start(S, user, first) ==
    IF user # admin_user THEN Ret(S, << >>)
    ELSE IF S.state.tag # "WaitingForPlayersToJoin" THEN Ret(S, << >>)
    ELSE LET S1 == [S EXCEPT !.current_player = first]
         IN IF first = None
            THEN Ret(S1, <<SendTextToMainChat("no players registered")>>)
            ELSE Ret(set_state(reload_available_questions([S1 EXCEPT !.current_tour = 0]),
                               Pause),
                     <<SendTextToMainChat("greeting"), SendTextToMainChat("game starts")>>)

\* Variant for sensitivity analysis: the tour may be changed at any time.
next_tour_in_any_state(S, user) ==
    IF user # admin_user THEN Ret(S, << >>)
    ELSE Ret(reload_available_questions([S EXCEPT !.current_tour = @ + 1]),
             <<SendTextToMainChat("next tour")>>)

next_tour(S, user) ==
    IF user # admin_user THEN Ret(S, << >>)
    ELSE IF S.state.tag # "Pause" /\ S.state.tag # "WaitingForTopic" THEN Ret(S, << >>)
    ELSE Ret(reload_available_questions([S EXCEPT !.current_tour = @ + 1]),
             <<SendTextToMainChat("next tour")>>)

\* Variant for sensitivity analysis: CanAnswer does not consult the falsestarted set.
message_ignoring_falsestarted(S, user) ==
    IF S.state.tag = "Falsestart"
    THEN LET player == find_player(S, user)
         IN IF player # None
            THEN Ret([S EXCEPT !.players_falsestarted = @ \cup {player}],
                     <<SendTextToMainChat("falsestart")>>)
            ELSE Ret(S, << >>)
    ELSE IF S.state.tag = "CanAnswer"
    THEN LET player == find_player(S, user)
         IN IF player = None THEN Ret(S, << >>)
            ELSE IF player \in S.players_answered_current_question THEN Ret(S, << >>)
            ELSE Ret(set_state([S EXCEPT !.current_player = player,
                                         !.players_answered_current_question =
                                             @ \cup {player}],
                               Answering(S.state.question, S.state.cost, TRUE)),
                     <<StopTimer, SendTextToMainChat("answers"), AskAdminYesNo>>)
    ELSE Ret(S, << >>)

\* Variant for sensitivity analysis: CanAnswer accepts a sender who never joined.
message_from_anyone(S, user) ==
    IF S.state.tag = "Falsestart"
    THEN LET player == find_player(S, user)
         IN IF player # None
            THEN Ret([S EXCEPT !.players_falsestarted = @ \cup {player}],
                     <<SendTextToMainChat("falsestart")>>)
            ELSE Ret(S, << >>)
    ELSE IF S.state.tag = "CanAnswer"
    THEN LET player == user
         IN IF player \in S.players_answered_current_question THEN Ret(S, << >>)
            ELSE IF player \in S.players_falsestarted THEN Ret(S, << >>)
            ELSE Ret(set_state([S EXCEPT !.current_player = player,
                                         !.players_answered_current_question =
                                             @ \cup {player}],
                               Answering(S.state.question, S.state.cost, TRUE)),
                     <<StopTimer, SendTextToMainChat("answers"), AskAdminYesNo>>)
    ELSE Ret(S, << >>)

\* Variant for sensitivity analysis: a false start costs the price of the question.
message_penalizing_falsestart(S, user) ==
    IF S.state.tag = "Falsestart"
    THEN LET player == find_player(S, user)
         IN IF player # None
            THEN Ret([S EXCEPT !.players_falsestarted = @ \cup {player},
                               !.players[player].score = @ - S.state.cost],
                     <<SendTextToMainChat("falsestart")>>)
            ELSE Ret(S, << >>)
    ELSE IF S.state.tag = "CanAnswer"
    THEN LET player == find_player(S, user)
         IN IF player = None THEN Ret(S, << >>)
            ELSE IF player \in S.players_answered_current_question THEN Ret(S, << >>)
            ELSE IF player \in S.players_falsestarted THEN Ret(S, << >>)
            ELSE Ret(set_state([S EXCEPT !.current_player = player,
                                         !.players_answered_current_question =
                                             @ \cup {player}],
                               Answering(S.state.question, S.state.cost, TRUE)),
                     <<StopTimer, SendTextToMainChat("answers"), AskAdminYesNo>>)
    ELSE Ret(S, << >>)

message(S, user) ==
    IF S.state.tag = "Falsestart"
    THEN LET player == find_player(S, user)
         IN IF player # None
            THEN Ret([S EXCEPT !.players_falsestarted = @ \cup {player}],
                     <<SendTextToMainChat("falsestart")>>)
            ELSE Ret(S, << >>)
    ELSE IF S.state.tag = "CanAnswer"
    THEN LET player == find_player(S, user)
         IN IF player = None THEN Ret(S, << >>)
            ELSE IF player \in S.players_answered_current_question THEN Ret(S, << >>)
            ELSE IF player \in S.players_falsestarted THEN Ret(S, << >>)
            ELSE Ret(set_state([S EXCEPT !.current_player = player,
                                         !.players_answered_current_question =
                                             @ \cup {player}],
                               Answering(S.state.question, S.state.cost, TRUE)),
                     <<StopTimer, SendTextToMainChat("answers"), AskAdminYesNo>>)
    ELSE Ret(S, << >>)

\* Variant for sensitivity analysis: every round starts from a freshly loaded board.
next_question_reloading(S, user) ==
    IF user # admin_user THEN Ret(S, << >>)
    ELSE IF S.current_player = None THEN Ret(S, << >>)
    ELSE LET S1 == set_state(reload_available_questions(S), WaitingForTopic)
             nonempty == { i \in 1..Len(S1.questions) : Len(S1.questions[i].costs) > 0 }
             topics == [ i \in nonempty |-> S1.questions[i].topic ]
         IN Ret(S1, <<SendScoreTable(make_score_table(S1)),
                      ChooseTopic(S1.players[S1.current_player].name,
                                  { topics[i] : i \in nonempty })>>)

next_question(S, user) ==
    IF user # admin_user THEN Ret(S, << >>)
    ELSE IF S.current_player = None THEN Ret(S, << >>)
    ELSE LET S1 == set_state(S, WaitingForTopic)
             nonempty == { i \in 1..Len(S1.questions) : Len(S1.questions[i].costs) > 0 }
             topics == [ i \in nonempty |-> S1.questions[i].topic ]
         IN Ret(S1, <<SendScoreTable(make_score_table(S1)),
                      ChooseTopic(S1.players[S1.current_player].name,
                                  { topics[i] : i \in nonempty })>>)

\* Variant for sensitivity analysis: the turn is not handed back to the chooser.
close_unanswered_question_keeping_turn(S, reason) ==
    LET S2 == set_state(S, Pause)
    IN IF S2.current_player = None
       THEN Ret([S2 EXCEPT !.panicked = TRUE], << >>)
       ELSE Ret(S2, <<SendTextToMainChat(reason), SendTextToMainChat("correct answer is")>>)

close_unanswered_question(S, reason) ==
    LET S1 == set_state(S, Pause)
        S2 == [S1 EXCEPT !.current_player = S1.player_which_chose_question]
    IN IF S2.current_player = None
       THEN Ret([S2 EXCEPT !.panicked = TRUE], << >>)
       ELSE Ret(S2, <<SendTextToMainChat(reason), SendTextToMainChat("correct answer is")>>)

\* Variant for sensitivity analysis: the turn goes back to the chooser after a
\* correct answer too.
close_answered_question_returning_turn(S, reason) ==
    LET S0 == set_state(S, Pause)
        S1 == [S0 EXCEPT !.current_player = S0.player_which_chose_question,
                         !.player_which_chose_question = None]
    IN IF S1.current_player = None
       THEN Ret([S1 EXCEPT !.panicked = TRUE], << >>)
       ELSE Ret(S1, <<SendTextToMainChat(reason)>>)

close_answered_question(S, reason) ==
    LET S1 == [set_state(S, Pause) EXCEPT !.player_which_chose_question = None]
    IN IF S1.current_player = None
       THEN Ret([S1 EXCEPT !.panicked = TRUE], << >>)
       ELSE Ret(S1, <<SendTextToMainChat(reason)>>)

yes_reply(S, user) ==
    IF user # admin_user THEN Ret(S, << >>)
    ELSE IF S.state.tag = "Answering"
    THEN LET r == update_current_player_score(S, S.state.cost)
         IN IF r.ok THEN close_answered_question(r.gs, "correct")
            ELSE Ret(S, << >>)
    ELSE Ret(S, << >>)

\* Variant for sensitivity analysis: the anyone-can-answer flag is not consulted.
no_reply_ignoring_flag(S, user) ==
    IF user # admin_user THEN Ret(S, << >>)
    ELSE IF S.state.tag = "Answering"
    THEN LET r == update_current_player_score(S, -S.state.cost)
             S1 == r.gs
         IN IF ~r.ok THEN Ret(S, << >>)
            ELSE IF Cardinality(S1.players_answered_current_question)
                        # Cardinality(DOMAIN S1.players)
            THEN Ret([set_state(S1, CanAnswer(S.state.question, S.state.cost))
                         EXCEPT !.players_falsestarted = {}],
                     <<SendTextToMainChat("incorrect"), Timeout("", "Long")>>)
            ELSE close_unanswered_question(S1, "everybody tried")
    ELSE Ret(S, << >>)

\* Variant for sensitivity analysis: the falsestarted set survives a wrong answer.
no_reply_keeping_falsestarted(S, user) ==
    IF user # admin_user THEN Ret(S, << >>)
    ELSE IF S.state.tag = "Answering"
    THEN LET r == update_current_player_score(S, -S.state.cost)
             S1 == r.gs
         IN IF ~r.ok THEN Ret(S, << >>)
            ELSE IF S.state.anyone
            THEN IF Cardinality(S1.players_answered_current_question)
                        # Cardinality(DOMAIN S1.players)
                 THEN Ret(set_state(S1, CanAnswer(S.state.question, S.state.cost)),
                          <<SendTextToMainChat("incorrect"), Timeout("", "Long")>>)
                 ELSE close_unanswered_question(S1, "everybody tried")
            ELSE close_unanswered_question(S1, "no")
    ELSE Ret(S, << >>)

\* Variant for sensitivity analysis: a wrong answer reopens the question even
\* when every player has already answered it.
no_reply_always_reopening(S, user) ==
    IF user # admin_user THEN Ret(S, << >>)
    ELSE IF S.state.tag = "Answering"
    THEN LET r == update_current_player_score(S, -S.state.cost)
             S1 == r.gs
         IN IF ~r.ok THEN Ret(S, << >>)
            ELSE IF S.state.anyone
            THEN Ret([set_state(S1, CanAnswer(S.state.question, S.state.cost))
                         EXCEPT !.players_falsestarted = {}],
                     <<SendTextToMainChat("incorrect"), Timeout("", "Long")>>)
            ELSE close_unanswered_question(S1, "no")
    ELSE Ret(S, << >>)

no_reply(S, user) ==
    IF user # admin_user THEN Ret(S, << >>)
    ELSE IF S.state.tag = "Answering"
    THEN LET r == update_current_player_score(S, -S.state.cost)
             S1 == r.gs
         IN IF ~r.ok THEN Ret(S, << >>)
            ELSE IF S.state.anyone
            THEN IF Cardinality(S1.players_answered_current_question)
                        # Cardinality(DOMAIN S1.players)
                 THEN Ret([set_state(S1, CanAnswer(S.state.question, S.state.cost))
                              EXCEPT !.players_falsestarted = {}],
                          <<SendTextToMainChat("incorrect"), Timeout("", "Long")>>)
                 ELSE close_unanswered_question(S1, "everybody tried")
            ELSE close_unanswered_question(S1, "no")
    ELSE Ret(S, << >>)

\* Variant for sensitivity analysis: the deadline also closes a pending judgment.
timeout_while_answering(S) ==
    IF S.state.tag = "BeforeQuestionAsked"
    THEN LET question == S.state.question
             delay == IF question.image THEN "Long"
                      ELSE IF question.len <= 100 THEN "Short"
                      ELSE IF question.len <= 230 THEN "Medium"
                      ELSE "Long"
         IN Ret(set_state(S, Falsestart(question, S.state.cost)),
                format_question(question) \o <<Timeout("!", delay)>>)
    ELSE IF S.state.tag = "Falsestart"
    THEN Ret(set_state(S, CanAnswer(S.state.question, S.state.cost)),
             <<Timeout("", "Long")>>)
    ELSE IF S.state.tag \in {"CanAnswer", "Answering"}
    THEN close_unanswered_question(S, "time is up")
    ELSE Ret(S, << >>)

\* Variant for sensitivity analysis: a timeout in CanAnswer schedules another
\* one instead of closing the question.
timeout_rearming(S) ==
    IF S.state.tag = "BeforeQuestionAsked"
    THEN LET question == S.state.question
             delay == IF question.image THEN "Long"
                      ELSE IF question.len <= 100 THEN "Short"
                      ELSE IF question.len <= 230 THEN "Medium"
                      ELSE "Long"
         IN Ret(set_state(S, Falsestart(question, S.state.cost)),
                format_question(question) \o <<Timeout("!", delay)>>)
    ELSE IF S.state.tag = "Falsestart"
    THEN Ret(set_state(S, CanAnswer(S.state.question, S.state.cost)),
             <<Timeout("", "Long")>>)
    ELSE IF S.state.tag = "CanAnswer"
    THEN Ret(S, <<Timeout("", "Long")>>)
    ELSE Ret(S, << >>)

timeout(S) ==
    IF S.state.tag = "BeforeQuestionAsked"
    THEN LET question == S.state.question
             delay == IF question.image THEN "Long"
                      ELSE IF question.len <= 100 THEN "Short"
                      ELSE IF question.len <= 230 THEN "Medium"
                      ELSE "Long"
         IN Ret(set_state(S, Falsestart(question, S.state.cost)),
                format_question(question) \o <<Timeout("!", delay)>>)
    ELSE IF S.state.tag = "Falsestart"
    THEN Ret(set_state(S, CanAnswer(S.state.question, S.state.cost)),
             <<Timeout("", "Long")>>)
    ELSE IF S.state.tag = "CanAnswer"
    THEN close_unanswered_question(S, "time is up")
    ELSE Ret(S, << >>)

\* Variant for sensitivity analysis: the whole tier list is offered, taken or not.
select_topic_offering_all_tiers(S, topic, user) ==
    IF S.state.tag # "WaitingForTopic" THEN Ret(S, << >>)
    ELSE IF ~is_current_player(S, user) THEN Ret(S, << >>)
    ELSE LET hits == { i \in 1..Len(S.questions) : S.questions[i].topic = topic }
         IN IF hits = {} THEN Ret(S, << >>)
            ELSE LET i == CHOOSE j \in hits : \A k \in hits : j <= k
                     costs == S.questions[i].costs
                 IN IF Len(costs) > 0
                    THEN Ret(set_state(S, WaitingForQuestion),
                             <<ChooseQuestion(topic, make_score_table(S).scores)>>)
                    ELSE Ret(S, << >>)

select_topic(S, topic, user) ==
    IF S.state.tag # "WaitingForTopic" THEN Ret(S, << >>)
    ELSE IF ~is_current_player(S, user) THEN Ret(S, << >>)
    ELSE LET hits == { i \in 1..Len(S.questions) : S.questions[i].topic = topic }
         IN IF hits = {} THEN Ret(S, << >>)
            ELSE LET i == CHOOSE j \in hits : \A k \in hits : j <= k
                     costs == S.questions[i].costs
                 IN IF Len(costs) > 0
                    THEN Ret(set_state(S, WaitingForQuestion),
                             <<ChooseQuestion(topic, costs)>>)
                    ELSE Ret(S, << >>)

\* Variant for sensitivity analysis: the loop leaves the selected cost on the board.
take_question_leaving_cost(qs, topic, cost, i, found) ==
    [questions |-> qs,
     found |-> \E j \in 1..Len(qs) : qs[j].topic = topic,
     used |-> \E j \in 1..Len(qs) : qs[j].topic = topic /\ ~Contains(qs[j].costs, cost)]

\* The loop of select_question over self.questions from entry i on: the board
\* after it, whether the topic was found, and whether the loop returned early
\* (the cost is not available in a matching entry).
RECURSIVE take_question(_, _, _, _, _)
take_question(qs, topic, cost, i, found) ==
    IF i > Len(qs) THEN [questions |-> qs, found |-> found, used |-> FALSE]
    ELSE IF qs[i].topic = topic
    THEN IF Contains(qs[i].costs, cost)
         THEN take_question([qs EXCEPT ![i].costs = Retain(@, cost)], topic, cost, i + 1, TRUE)
         ELSE [questions |-> qs, found |-> TRUE, used |-> TRUE]
    ELSE take_question(qs, topic, cost, i + 1, found)

\* Variant for sensitivity analysis: a failed lookup puts the cost back on the board.
select_question_from_keeping_cell(S, topic, cost, user, questions_storage) ==
    IF S.state.tag # "WaitingForQuestion" THEN Ret(S, << >>)
    ELSE IF ~is_current_player(S, user) THEN Ret(S, << >>)
    ELSE LET taken == take_question(S.questions, topic, cost, 1, FALSE)
             S1 == [S EXCEPT !.questions = taken.questions]
             reply == <<SendTextToMainChat("playing topic and cost")>>
             maybe_cat_in_bag == is_cat_in_bag(topic, cost)
         IN IF taken.used THEN Ret(S1, << >>)
            ELSE IF ~taken.found THEN Ret(S1, << >>)
            ELSE IF maybe_cat_in_bag.some
            THEN Ret(set_state(S1, CatInBagChoosingPlayer(maybe_cat_in_bag.new_topic,
                                                          maybe_cat_in_bag.question)),
                     reply \o <<SendToAdmin, SendTextToMainChat("cat in bag"),
                                CatInBagChoosePlayer(DOMAIN S1.players \ {S1.current_player})>>)
            ELSE IF S1.current_multiplier = 0
            THEN Ret([S1 EXCEPT !.panicked = TRUE], << >>)
            ELSE LET got == StorageGetFrom(questions_storage, topic,
                                           cost \div S1.current_multiplier)
                 IN IF ~got.some THEN Ret(S, << >>)
                    ELSE IF is_manual(topic, cost)
                    THEN Ret(set_state(S1, Pause),
                             reply \o <<SendToAdmin, SendTextToMainChat("played manually")>>)
                    ELSE IF is_auction(topic, cost)
                    THEN Ret(set_state(S1, WaitingForAuction(got.question)),
                             reply \o <<SendToAdmin, SendTextToMainChat("auction")>>)
                    ELSE Ret([set_state(S1, BeforeQuestionAsked(got.question, cost))
                                 EXCEPT !.player_which_chose_question = S1.current_player],
                             reply \o <<SendToAdmin, Timeout("", "Medium")>>)

select_question_from(S, topic, cost, user, questions_storage) ==
    IF S.state.tag # "WaitingForQuestion" THEN Ret(S, << >>)
    ELSE IF ~is_current_player(S, user) THEN Ret(S, << >>)
    ELSE LET taken == take_question(S.questions, topic, cost, 1, FALSE)
             S1 == [S EXCEPT !.questions = taken.questions]
             reply == <<SendTextToMainChat("playing topic and cost")>>
             maybe_cat_in_bag == is_cat_in_bag(topic, cost)
         IN IF taken.used THEN Ret(S1, << >>)
            ELSE IF ~taken.found THEN Ret(S1, << >>)
            ELSE IF maybe_cat_in_bag.some
            THEN Ret(set_state(S1, CatInBagChoosingPlayer(maybe_cat_in_bag.new_topic,
                                                          maybe_cat_in_bag.question)),
                     reply \o <<SendToAdmin, SendTextToMainChat("cat in bag"),
                                CatInBagChoosePlayer(DOMAIN S1.players \ {S1.current_player})>>)
            ELSE IF S1.current_multiplier = 0
            THEN Ret([S1 EXCEPT !.panicked = TRUE], << >>)
            ELSE LET got == StorageGetFrom(questions_storage, topic,
                                           cost \div S1.current_multiplier)
                 IN IF ~got.some THEN Ret(S1, << >>)
                    ELSE IF is_manual(topic, cost)
                    THEN Ret(set_state(S1, Pause),
                             reply \o <<SendToAdmin, SendTextToMainChat("played manually")>>)
                    ELSE IF is_auction(topic, cost)
                    THEN Ret(set_state(S1, WaitingForAuction(got.question)),
                             reply \o <<SendToAdmin, SendTextToMainChat("auction")>>)
                    ELSE Ret([set_state(S1, BeforeQuestionAsked(got.question, cost))
                                 EXCEPT !.player_which_chose_question = S1.current_player],
                             reply \o <<SendToAdmin, Timeout("", "Medium")>>)

\* select_question called with the question source the session was built from.
select_question(S, topic, cost, user) ==
    select_question_from(S, topic, cost, user, FullStorage)

\* usize -> i64 by TryInto: Ok(value) when the value fits, Err otherwise (the
\* caller unwraps the result).
try_into_i64(cost) ==
    IF cost <= i64_MAX THEN [ok |-> TRUE, value |-> cost] ELSE [ok |-> FALSE]

update_auction_cost(S, maybe_admin, name, cost) ==
    IF maybe_admin # admin_user THEN Ret(S, << >>)
    ELSE IF S.state.tag # "WaitingForAuction" THEN Ret(S, << >>)
    ELSE LET player == find_player_by_name(S, name)
             S1 == [S EXCEPT !.current_player = player,
                             !.player_which_chose_question = player]
             converted == try_into_i64(cost)
         IN IF player = None THEN Ret(S, << >>)
            ELSE IF ~converted.ok THEN Ret([S1 EXCEPT !.panicked = TRUE], << >>)
            ELSE Ret(set_state(S1, Answering(S.state.question, converted.value, FALSE)),
                     <<SendTextToMainChat("playing auction")>>
                         \o format_question(S.state.question) \o <<AskAdminYesNo>>)

\* Variant for sensitivity analysis: the chooser may keep the cat-in-bag.
select_cat_in_bag_player_allowing_self(S, user, selected_player) ==
    IF S.state.tag # "CatInBagChoosingPlayer" THEN Ret(S, << >>)
    ELSE IF S.current_player = None \/ user # S.current_player THEN Ret(S, << >>)
    ELSE LET hits == { p \in DOMAIN S.players : S.players[p].name = selected_player }
         IN IF hits = {} THEN Ret(S, << >>)
            ELSE LET player == CHOOSE p \in hits : TRUE
                 IN Ret(set_state([S EXCEPT !.current_player = player,
                                            !.player_which_chose_question = player],
                                  CatInBagChoosingCost(S.state.question)),
                        <<SendTextToMainChat("playing with"),
                          CatInBagChooseCost(<<S.current_multiplier,
                                               S.current_multiplier * questions_per_topic>>)>>)

\* Variant for sensitivity analysis: any player may hand the cat-in-bag on.
select_cat_in_bag_player_by_anyone(S, user, selected_player) ==
    IF S.state.tag # "CatInBagChoosingPlayer" THEN Ret(S, << >>)
    ELSE LET hits == { p \in DOMAIN S.players :
                          p # user /\ S.players[p].name = selected_player }
         IN IF hits = {} THEN Ret(S, << >>)
            ELSE LET player == CHOOSE p \in hits : TRUE
                 IN Ret(set_state([S EXCEPT !.current_player = player,
                                            !.player_which_chose_question = player],
                                  CatInBagChoosingCost(S.state.question)),
                        <<SendTextToMainChat("playing with"),
                          CatInBagChooseCost(<<S.current_multiplier,
                                               S.current_multiplier * questions_per_topic>>)>>)

\* Variant for sensitivity analysis: the chooser is left as it was.
select_cat_in_bag_player_keeping_chooser(S, user, selected_player) ==
    IF S.state.tag # "CatInBagChoosingPlayer" THEN Ret(S, << >>)
    ELSE IF S.current_player = None \/ user # S.current_player THEN Ret(S, << >>)
    ELSE LET hits == { p \in DOMAIN S.players :
                          p # user /\ S.players[p].name = selected_player }
         IN IF hits = {} THEN Ret(S, << >>)
            ELSE LET player == CHOOSE p \in hits : TRUE
                 IN Ret(set_state([S EXCEPT !.current_player = player],
                                  CatInBagChoosingCost(S.state.question)),
                        <<SendTextToMainChat("playing with"),
                          CatInBagChooseCost(<<S.current_multiplier,
                                               S.current_multiplier * questions_per_topic>>)>>)

select_cat_in_bag_player(S, user, selected_player) ==
    IF S.state.tag # "CatInBagChoosingPlayer" THEN Ret(S, << >>)
    ELSE IF S.current_player = None \/ user # S.current_player THEN Ret(S, << >>)
    ELSE LET hits == { p \in DOMAIN S.players :
                          p # user /\ S.players[p].name = selected_player }
         IN IF hits = {} THEN Ret(S, << >>)
            ELSE LET player == CHOOSE p \in hits : TRUE
                 IN Ret(set_state([S EXCEPT !.current_player = player,
                                            !.player_which_chose_question = player],
                                  CatInBagChoosingCost(S.state.question)),
                        <<SendTextToMainChat("playing with"),
                          CatInBagChooseCost(<<S.current_multiplier,
                                               S.current_multiplier * questions_per_topic>>)>>)

\* Variant for sensitivity analysis: any amount is accepted as the cost.
select_cat_in_bag_cost_any_amount(S, user, cost) ==
    IF S.state.tag # "CatInBagChoosingCost" THEN Ret(S, << >>)
    ELSE IF S.current_player = None \/ user # S.current_player THEN Ret(S, << >>)
    ELSE Ret(set_state(S, Answering(S.state.question, cost, FALSE)),
             <<SendTextToMainChat("cost selected")>>
                 \o format_question(S.state.question) \o <<AskAdminYesNo>>)

select_cat_in_bag_cost(S, user, cost) ==
    IF S.state.tag # "CatInBagChoosingCost" THEN Ret(S, << >>)
    ELSE IF S.current_player = None \/ user # S.current_player THEN Ret(S, << >>)
    ELSE IF cost # S.current_multiplier
            /\ cost # S.current_multiplier * questions_per_topic
    THEN Ret(S, << >>)
    ELSE Ret(set_state(S, Answering(S.state.question, cost, FALSE)),
             <<SendTextToMainChat("cost selected")>>
                 \o format_question(S.state.question) \o <<AskAdminYesNo>>)

get_score(S, user) == Ret(S, <<SendTextToMainChat("score")>>)

current_player_query(S, user) ==
    Ret(S, <<SendTextToMainChat(IF S.current_player # None THEN "current player name"
                                ELSE "No current player!")>>)

change_player(S, user, name) ==
    IF user # admin_user THEN Ret(S, << >>)
    ELSE LET player == find_player_by_name(S, name)
         IN IF player # None
            THEN Ret([S EXCEPT !.current_player = player],
                     <<SendTextToMainChat("plays")>>)
            ELSE Ret(S, <<SendTextToMainChat("player not found")>>)

update_score(S, name, newscore, user) ==
    IF user # admin_user THEN Ret(S, << >>)
    ELSE LET player == find_player_by_name(S, name)
         IN IF player = None THEN Ret(S, << >>)
            ELSE Ret([S EXCEPT !.players[player].score = newscore], << >>)

\* The loop of hide_question over self.questions from entry i on.
RECURSIVE hide_loop(_, _, _, _)
hide_loop(qs, topic, cost, i) ==
    IF i > Len(qs) THEN qs
    ELSE IF qs[i].topic = topic
    THEN IF Contains(qs[i].costs, cost)
         THEN hide_loop([qs EXCEPT ![i].costs = Retain(@, cost)], topic, cost, i + 1)
         ELSE qs
    ELSE hide_loop(qs, topic, cost, i + 1)

\* Variant for sensitivity analysis: the caller's identity is not checked.
hide_question_by_anyone(S, topic, cost, user) ==
    Ret([S EXCEPT !.questions = hide_loop(S.questions, topic, cost, 1)], << >>)

hide_question(S, topic, cost, user) ==
    IF user # admin_user THEN Ret(S, << >>)
    ELSE Ret([S EXCEPT !.questions = hide_loop(S.questions, topic, cost, 1)], << >>)

\* --------------------------------------------------------------- actions

\* One call of a handler: the session becomes what the handler returns (the
\* returned intents r.res are outputs, not state). A panic ends the process; a
\* step that would leave the score range is not taken.
\* picker records the caller of the select_question that put the question in
\* play (the only handler that leaves WaitingForQuestion for a LiveTags state);
\* buzzer records the caller of the message that moved CanAnswer to Answering.
Become(caller, r) ==
    /\ ~panicked
    /\ state' = r.gs.state
    /\ players' = r.gs.players
    /\ current_player' = r.gs.current_player
    /\ player_which_chose_question' = r.gs.player_which_chose_question
    /\ questions' = r.gs.questions
    /\ players_falsestarted' = r.gs.players_falsestarted
    /\ players_answered_current_question' = r.gs.players_answered_current_question
    /\ current_tour' = r.gs.current_tour
    /\ current_multiplier' = r.gs.current_multiplier
    /\ panicked' = r.gs.panicked
    /\ picker' = IF r.gs.state.tag \notin LiveTags THEN None
                  ELSE IF state.tag = "WaitingForQuestion" THEN caller
                  ELSE picker
    /\ buzzer' = IF r.gs.state.tag # "Answering" THEN None
                  ELSE IF state.tag = "CanAnswer" THEN caller
                  ELSE buzzer

GameStep(caller, r) ==
    /\ \A p \in DOMAIN r.gs.players :
           r.gs.players[p].score \in -MaxScore..MaxScore
    /\ Become(caller, r)

\* A handler call with no timer machinery attached.
Step(caller, r) == GameStep(caller, r) /\ UNCHANGED <<cvars, tvars, mvars, episodes>>

Init ==
    /\ state = NewGameState.state
    /\ players = NewGameState.players
    /\ current_player = NewGameState.current_player
    /\ player_which_chose_question = NewGameState.player_which_chose_question
    /\ questions = NewGameState.questions
    /\ players_falsestarted = NewGameState.players_falsestarted
    /\ players_answered_current_question = NewGameState.players_answered_current_question
    /\ current_tour = NewGameState.current_tour
    /\ current_multiplier = NewGameState.current_multiplier
    /\ panicked = NewGameState.panicked
    /\ picker = None
    /\ buzzer = None
    /\ call = None
    /\ result = NotCalled
    /\ NoTimers
    /\ NoThreads
    /\ NoEpisodes

AddPlayer == \E j \in JoinInputs : Step(j[1], add_player(GS, j[1], j[2]))

Start ==
    \E u \in UserIds :
        \E first \in (IF DOMAIN players = {} THEN {None} ELSE DOMAIN players) :
            Step(u, start(GS, u, first))

NextTour ==
    /\ current_tour < MaxTour
    /\ \E u \in UserIds : Step(u, next_tour(GS, u))

Message == \E u \in UserIds : Step(u, message(GS, u))

NextQuestion == \E u \in UserIds : Step(u, next_question(GS, u))

YesReply == \E u \in UserIds : Step(u, yes_reply(GS, u))

NoReply == \E u \in UserIds : Step(u, no_reply(GS, u))

TimeoutEvent == Step(None, timeout(GS))

SelectTopic ==
    \E u \in UserIds, t \in TopicInputs : Step(u, select_topic(GS, t, u))

SelectQuestion ==
    \E u \in UserIds, t \in TopicInputs, c \in CostInputs, qs \in Storages :
        Step(u, select_question_from(GS, t, c, u, qs))

UpdateAuctionCost ==
    \E u \in UserIds, n \in NameInputs, c \in AuctionCostInputs :
        Step(u, update_auction_cost(GS, u, n, c))

SelectCatInBagPlayer ==
    \E u \in UserIds, n \in NameInputs :
        Step(u, select_cat_in_bag_player(GS, u, n))

SelectCatInBagCost ==
    \E u \in UserIds, c \in CostInputs :
        Step(u, select_cat_in_bag_cost(GS, u, c))

GetScore == \E u \in UserIds : Step(u, get_score(GS, u))

CurrentPlayerQuery == \E u \in UserIds : Step(u, current_player_query(GS, u))

ChangePlayer ==
    \E u \in UserIds, n \in NameInputs : Step(u, change_player(GS, u, n))

UpdateScore ==
    \E u \in UserIds, n \in NameInputs, v \in ScoreInputs :
        Step(u, update_score(GS, n, v, u))

HideQuestion ==
    \E u \in UserIds, t \in TopicInputs, c \in CostInputs :
        Step(u, hide_question(GS, t, c, u))

Next ==
    \/ AddPlayer \/ Start \/ NextTour \/ Message \/ NextQuestion
    \/ YesReply \/ NoReply \/ TimeoutEvent \/ SelectTopic \/ SelectQuestion
    \/ UpdateAuctionCost \/ SelectCatInBagPlayer \/ SelectCatInBagCost
    \/ GetScore \/ CurrentPlayerQuery \/ ChangePlayer \/ UpdateScore \/ HideQuestion

Spec == Init /\ [][Next]_vars

\* ------------------------------------------------------ claim vocabulary

Registered == DOMAIN players
Score(S, p) == S.players[p].score
HasIntent(res, t) == \E i \in 1..Len(res) : res[i].t = t
NoOp(r) == r.gs = GS /\ r.res = << >>

\* The session after a step, for action formulas.
GSNext == [state |-> state', players |-> players', current_player |-> current_player',
           player_which_chose_question |-> player_which_chose_question',
           questions |-> questions', players_falsestarted |-> players_falsestarted',
           players_answered_current_question |-> players_answered_current_question',
           current_tour |-> current_tour', current_multiplier |-> current_multiplier',
           panicked |-> panicked']

\* ---------------------------------------------------------------- C1

\* C1 (turn return on failure): in the automatic flow, whenever the question in
\* play closes as unanswered -- timeout in CanAnswer, or the admin's no_reply
\* once every registered player has buzzed -- the state is Pause and
\* current_player is the player whose select_question put the question in play.
C1_TurnReturnOnFailure ==
    /\ state.tag = "CanAnswer" =>
          LET r == timeout(GS).gs
          IN /\ picker \in Registered
             /\ r.state = Pause /\ ~r.panicked
             /\ r.current_player = picker
    /\ (state.tag = "Answering" /\ state.anyone
            /\ players_answered_current_question = Registered) =>
          LET r == no_reply(GS, admin_user).gs
          IN /\ picker \in Registered
             /\ r.state = Pause /\ ~r.panicked
             /\ r.current_player = picker

\* Both players have buzzed, the second one (not the picker) is being judged,
\* and the admin's no hands the turn back to the picker.
C1_Witness ==
    /\ state.tag = "Answering" /\ state.anyone
    /\ Cardinality(Registered) = 2
    /\ players_answered_current_question = Registered
    /\ current_player # picker
    /\ no_reply(GS, admin_user).gs.state = Pause
    /\ no_reply(GS, admin_user).gs.current_player = picker

\* ---------------------------------------------------------------- C2

\* C2 as stated (turn capture on success): after the admin's yes_reply in
\* Answering of the buzz flow, the state is Pause and current_player is the
\* player who buzzed, and that player was credited.
C2_Original ==
    (state.tag = "Answering" /\ state.anyone) =>
        LET r == yes_reply(GS, admin_user).gs
        IN /\ r.state = Pause
           /\ r.current_player = buzzer
           /\ Score(r, buzzer) = Score(GS, buzzer) + state.cost

\* What yes_reply does in Answering: Pause, current_player kept and credited.
C2_YesKeepsCurrentPlayer ==
    state.tag = "Answering" =>
        LET r == yes_reply(GS, admin_user).gs
        IN /\ current_player \in Registered
           /\ r.state = Pause /\ ~r.panicked
           /\ r.current_player = current_player
           /\ Score(r, current_player) = Score(GS, current_player) + state.cost

\* An accepted buzz makes the buzzer current_player.
C2_BuzzSetsCurrentPlayer ==
    (state.tag = "CanAnswer" /\ state'.tag = "Answering") =>
        (buzzer' \in Registered /\ current_player' = buzzer' /\ state'.anyone)

\* While the judgment is pending only the admin's change_player moves current_player.
C2_OnlyChangePlayerReassigns ==
    (state.tag = "Answering" /\ state'.tag = "Answering"
        /\ current_player' # current_player) =>
        \E n \in NameInputs : GSNext = change_player(GS, admin_user, n).gs

\* C2 (amended): after the admin's yes_reply in Answering the state is Pause and
\* current_player is the player who was credited, namely the current_player at
\* the time of the yes_reply; in the buzz flow that is the player who buzzed
\* (whether or not they selected the question, and also after wrong answers by
\* others) unless the admin reassigned the turn with change_player meanwhile.
C2_TurnCaptureOnSuccess ==
    /\ []C2_YesKeepsCurrentPlayer
    /\ [][C2_BuzzSetsCurrentPlayer]_vars
    /\ [][C2_OnlyChangePlayerReassigns]_vars

\* The second buzzer, who did not select the question, is being judged after the
\* picker's wrong answer, and a yes makes them current_player.
C2_Witness ==
    /\ state.tag = "Answering" /\ state.anyone
    /\ current_player = buzzer /\ buzzer # picker
    /\ picker \in players_answered_current_question
    /\ yes_reply(GS, admin_user).gs.state = Pause
    /\ yes_reply(GS, admin_user).gs.current_player = buzzer

\* ---------------------------------------------------------------- C3

\* C3 as stated (no double buzz): a buzz from a player already in the answered
\* or the falsestarted set changes nothing and emits no intents, in Falsestart
\* as well as in CanAnswer.
C3_Original ==
    state.tag \in {"Falsestart", "CanAnswer"} =>
        \A u \in players_answered_current_question \cup players_falsestarted :
            NoOp(message(GS, u))

\* C3 (amended): a buzz from a player already in the answered or the
\* falsestarted set leaves the whole session unchanged in Falsestart and in
\* CanAnswer; it emits no intents in CanAnswer, while in Falsestart the
\* falsestart notice is sent again.
C3_NoDoubleBuzz ==
    state.tag \in {"Falsestart", "CanAnswer"} =>
        \A u \in players_answered_current_question \cup players_falsestarted :
            /\ message(GS, u).gs = GS
            /\ state.tag = "CanAnswer" => message(GS, u).res = << >>
            /\ state.tag = "Falsestart" =>
                   message(GS, u).res = <<SendTextToMainChat("falsestart")>>

\* The buzz window is open, one player has false-started and buzzes again.
C3_Witness ==
    /\ state.tag = "CanAnswer"
    /\ \E u \in players_falsestarted : NoOp(message(GS, u))
    /\ \E u \in Registered : message(GS, u).gs.state.tag = "Answering"

\* ---------------------------------------------------------------- C4

\* C4: a buzz has an effect only from a registered player in Falsestart or
\* CanAnswer; from an unregistered user, or in any other state, it changes
\* nothing and emits nothing; an eligible buzz in CanAnswer makes the sender
\* current_player, adds them to the answered set, emits the cancel-timeout intent
\* and moves to Answering of the same question and cost with anyone = TRUE.
C4_BuzzEffect ==
    \A u \in UserIds :
        LET r == message(GS, u)
        IN /\ (u \notin Registered \/ state.tag \notin {"Falsestart", "CanAnswer"}) =>
                  NoOp(r)
           /\ (state.tag = "CanAnswer" /\ u \in Registered
                   /\ u \notin players_answered_current_question
                   /\ u \notin players_falsestarted) =>
                  /\ r.gs = [GS EXCEPT
                                !.state = Answering(state.question, state.cost, TRUE),
                                !.current_player = u,
                                !.players_answered_current_question = @ \cup {u}]
                  /\ HasIntent(r.res, "StopTimer")

\* The buzz window is open: a registered player's buzz is accepted while an
\* unregistered user's buzz is ignored.
C4_Witness ==
    /\ state.tag = "CanAnswer"
    /\ \E u \in Registered : message(GS, u).gs.state.tag = "Answering"
                                /\ message(GS, u).gs.current_player # current_player
    /\ \E u \in UserIds \ Registered : NoOp(message(GS, u))

\* ---------------------------------------------------------------- C5

\* C5: the admin's yes_reply in Answering(question, cost, _) adds exactly cost to
\* current_player's score, leaves every other score unchanged, clears the
\* chooser reference and moves to Pause; in any other state it changes nothing
\* and emits no intents.
C5_YesReply ==
    LET r == yes_reply(GS, admin_user)
    IN IF state.tag = "Answering"
       THEN /\ current_player \in Registered
            /\ r.gs = [GS EXCEPT !.state = Pause,
                                 !.player_which_chose_question = None,
                                 !.players[current_player].score = @ + state.cost]
            /\ \A p \in Registered \ {current_player} : Score(r.gs, p) = Score(GS, p)
            /\ Score(r.gs, current_player) - Score(GS, current_player) = state.cost
       ELSE NoOp(r)

\* A judgment is pending in a two-player game with a chooser set, and the yes
\* credits the cost.
C5_Witness ==
    /\ state.tag = "Answering"
    /\ Cardinality(Registered) = 2
    /\ player_which_chose_question # None
    /\ Score(yes_reply(GS, admin_user).gs, current_player)
           = Score(GS, current_player) + state.cost
    /\ yes_reply(GS, admin_user).gs.player_which_chose_question = None

\* ---------------------------------------------------------------- C6

\* The selected question is being played by one designated player.
SingleAnswererFlow(st) ==
    \/ st.tag \in {"WaitingForAuction", "CatInBagChoosingPlayer", "CatInBagChoosingCost"}
    \/ st.tag = "Answering" /\ ~st.anyone

\* The admin's no_reply in Answering debits current_player by exactly cost and
\* closes the question as unanswered (Pause, current_player := chooser) exactly
\* when the flow is single-answerer or every registered player has answered.
C6_NoReplyCloses ==
    state.tag = "Answering" =>
        LET r == no_reply(GS, admin_user).gs
            closes == ~state.anyone \/ players_answered_current_question = Registered
        IN /\ current_player \in Registered
           /\ Score(r, current_player) = Score(GS, current_player) - state.cost
           /\ \A p \in Registered \ {current_player} : Score(r, p) = Score(GS, p)
           /\ closes => /\ r.state = Pause /\ ~r.panicked
                        /\ player_which_chose_question \in Registered
                        /\ r.current_player = player_which_chose_question
           /\ ~closes => r.state.tag = "CanAnswer"

\* No step takes a single-answerer flow to CanAnswer.
C6_SingleNeverCanAnswer == SingleAnswererFlow(state) => state'.tag # "CanAnswer"

\* C6: no_reply by the admin in Answering debits current_player by exactly cost
\* and closes the question as unanswered exactly when the flow is single-answerer
\* or the answered set contains every registered player; a single-answerer flow
\* never returns to CanAnswer.
C6_NoReply == []C6_NoReplyCloses /\ [][C6_SingleNeverCanAnswer]_vars

\* An auction or cat-in-bag answer is being judged in a two-player game in which
\* nobody has buzzed, and the admin's no closes the question.
C6_Witness ==
    /\ state.tag = "Answering" /\ ~state.anyone
    /\ Cardinality(Registered) = 2
    /\ players_answered_current_question = {}
    /\ no_reply(GS, admin_user).gs.state = Pause
    /\ Score(no_reply(GS, admin_user).gs, current_player)
           = Score(GS, current_player) - state.cost

\* ---------------------------------------------------------------- C7

\* C7: no_reply in the buzz flow while some registered player has not answered
\* returns to CanAnswer with the same question and cost, empties the
\* falsestarted set, keeps the answered set and emits a schedule-timeout intent;
\* every player who has not answered, false-started or not, may then buzz and
\* be judged.
C7_NoReplyReopens ==
    (state.tag = "Answering" /\ state.anyone
        /\ players_answered_current_question # Registered) =>
        LET r == no_reply(GS, admin_user)
        IN /\ r.gs.state = CanAnswer(state.question, state.cost)
           /\ r.gs.players_falsestarted = {}
           /\ r.gs.players_answered_current_question = players_answered_current_question
           /\ r.res = <<SendTextToMainChat("incorrect"), Timeout("", "Long")>>
           /\ \A p \in Registered \ players_answered_current_question :
                  message(r.gs, p).gs.state = Answering(state.question, state.cost, TRUE)

\* One player is being judged while the other one, who false-started, has not
\* answered yet: after the no, the false-starter's buzz is accepted.
C7_Witness ==
    /\ state.tag = "Answering" /\ state.anyone
    /\ \E p \in players_falsestarted :
          /\ p \notin players_answered_current_question
          /\ message(no_reply(GS, admin_user).gs, p).gs.state.tag = "Answering"
          /\ message(no_reply(GS, admin_user).gs, p).gs.current_player = p

\* ---------------------------------------------------------------- C8

\* C8: timeout drives exactly three edges, BeforeQuestionAsked -> Falsestart ->
\* CanAnswer -> Pause (closing the question as unanswered), each but the last
\* scheduling the next timeout; in any other state, Answering included, it
\* changes nothing and emits no intents.
C8_TimeoutEdges ==
    LET r == timeout(GS)
    IN /\ state.tag = "BeforeQuestionAsked" =>
              /\ r.gs = [GS EXCEPT !.state = Falsestart(state.question, state.cost)]
              /\ r.res[Len(r.res)].t = "Timeout"
       /\ state.tag = "Falsestart" =>
              /\ r.gs = [GS EXCEPT !.state = CanAnswer(state.question, state.cost)]
              /\ r.res = <<Timeout("", "Long")>>
       /\ state.tag = "CanAnswer" =>
              /\ r.gs = [GS EXCEPT !.state = Pause,
                                   !.current_player = player_which_chose_question]
              /\ r.gs.current_player \in Registered
              /\ ~HasIntent(r.res, "Timeout")
       /\ state.tag \notin {"BeforeQuestionAsked", "Falsestart", "CanAnswer"} => NoOp(r)

\* A buzz is being judged after the three timer edges, and a timeout delivered
\* now is ignored.
C8_Witness ==
    /\ state.tag = "Answering" /\ state.anyone
    /\ NoOp(timeout(GS))

\* ---------------------------------------------------------------- C9

\* C9 (authorization): start, next_tour, next_question, yes_reply, no_reply,
\* update_score, change_player, hide_question and update_auction_cost called by
\* anyone but the admin change no field of the session and return no intents,
\* in every state and for every argument.
C9_AdminOnly ==
    \A u \in UserIds \ {admin_user} :
        /\ \A first \in Registered \cup {None} : NoOp(start(GS, u, first))
        /\ NoOp(next_tour(GS, u))
        /\ NoOp(next_question(GS, u))
        /\ NoOp(yes_reply(GS, u))
        /\ NoOp(no_reply(GS, u))
        /\ \A n \in NameInputs, v \in ScoreInputs : NoOp(update_score(GS, n, v, u))
        /\ \A n \in NameInputs : NoOp(change_player(GS, u, n))
        /\ \A t \in TopicInputs, c \in CostInputs : NoOp(hide_question(GS, t, c, u))
        /\ \A n \in NameInputs, c \in AuctionCostInputs :
               NoOp(update_auction_cost(GS, u, n, c))

\* An auction is waiting for the admin: the admin's update_auction_cost,
\* next_question, change_player and hide_question would all take effect, and the
\* same calls by the current player are ignored.
C9_Witness ==
    /\ state.tag = "WaitingForAuction"
    /\ current_player \in UserIds \ {admin_user}
    /\ \E n \in NameInputs, c \in AuctionCostInputs :
          /\ update_auction_cost(GS, admin_user, n, c).gs.state.tag = "Answering"
          /\ NoOp(update_auction_cost(GS, current_player, n, c))
    /\ next_question(GS, admin_user).gs # GS /\ NoOp(next_question(GS, current_player))
    /\ \E n \in NameInputs :
          /\ change_player(GS, admin_user, n).gs # GS
          /\ NoOp(change_player(GS, current_player, n))
    /\ \E t \in TopicInputs, c \in CostInputs :
          /\ hide_question(GS, t, c, admin_user).gs # GS
          /\ NoOp(hide_question(GS, t, c, current_player))

\* --------------------------------------------------------------- C10

\* C10: select_topic and select_question called by anyone but current_player
\* change nothing and emit no intents; select_topic has an effect only in
\* WaitingForTopic and select_question only in WaitingForQuestion.
C10_ChooserOnly ==
    \A u \in UserIds, t \in TopicInputs :
        /\ (u # current_player \/ state.tag # "WaitingForTopic") =>
               NoOp(select_topic(GS, t, u))
        /\ \A c \in CostInputs :
               (u # current_player \/ state.tag # "WaitingForQuestion") =>
                   NoOp(select_question(GS, t, c, u))

\* The current player may pick a question that is on the board; the same pick
\* by the other player is ignored.
C10_Witness ==
    /\ state.tag = "WaitingForQuestion"
    /\ \E u \in Registered \ {current_player}, t \in TopicInputs, c \in CostInputs :
          /\ select_question(GS, t, c, current_player).gs.state.tag = "BeforeQuestionAsked"
          /\ NoOp(select_question(GS, t, c, u))

\* --------------------------------------------------------------- C11

\* C11 as stated: the admin's next_question has an effect only from Pause, where
\* it moves to WaitingForTopic; in every other state it changes nothing and
\* emits no intents.
C11_Original ==
    LET r == next_question(GS, admin_user)
    IN IF state.tag = "Pause"
       THEN r.gs.state = WaitingForTopic
       ELSE NoOp(r)

\* The buzz window of a live question is open, and the admin's next_question
\* abandons the question for a new topic choice.
C11_Witness ==
    /\ state.tag = "CanAnswer"
    /\ next_question(GS, admin_user).gs.state = WaitingForTopic
    /\ HasIntent(next_question(GS, admin_user).res, "ChooseTopic")
    /\ next_question(GS, admin_user).gs.player_which_chose_question # None

\* --------------------------------------------------------------- C12

\* The costs of a board entry as a set, and the costs available for a topic.
CostSet(costs) == { costs[k] : k \in 1..Len(costs) }
Available(S, topic) ==
    UNION { CostSet(S.questions[i].costs) :
                i \in { j \in 1..Len(S.questions) : S.questions[j].topic = topic } }

\* A step inside one tour: the board is not being loaded by start or next_tour.
SameTour == state.tag # "WaitingForPlayersToJoin" /\ current_tour' = current_tour

\* Inside one tour the board keeps its topics and every topic's costs only shrink.
C12_Shrinks ==
    SameTour =>
        /\ Len(questions') = Len(questions)
        /\ \A i \in 1..Len(questions) :
              /\ questions'[i].topic = questions[i].topic
              /\ CostSet(questions'[i].costs) \subseteq CostSet(questions[i].costs)

\* A cell that is not on the board is not offered and cannot be selected.
C12_TakenRejected ==
    \A u \in UserIds, t \in TopicInputs :
        /\ \A c \in CostInputs \ Available(GS, t) : NoOp(select_question(GS, t, c, u))
        /\ LET r == select_topic(GS, t, u).res
           IN \A k \in 1..Len(r) :
                  r[k].t = "ChooseQuestion" => CostSet(r[k].costs) \subseteq Available(GS, t)
        /\ LET r == next_question(GS, u).res
           IN \A k \in 1..Len(r) :
                  r[k].t = "ChooseTopic" => \A tt \in r[k].topics : Available(GS, tt) # {}

\* C12 (board monotonicity): within one tour the available costs of every topic
\* only shrink; a (topic, cost) that is no longer on the board is not offered by
\* next_question or select_topic, and a select_question for it is rejected with
\* no state change and no intents.
C12_BoardMonotone == [][C12_Shrinks]_vars /\ []C12_TakenRejected

\* The current player is choosing a cost in a topic of tour 0 whose first cell
\* was removed earlier: the removed cell is rejected, the remaining one can be
\* selected and is the only one offered.
C12_Witness ==
    /\ state.tag = "WaitingForQuestion" /\ current_tour = 0
    /\ current_player \in Registered
    /\ Available(GS, "Sport") = {2}
    /\ NoOp(select_question(GS, "Sport", 1, current_player))
    /\ select_question(GS, "Sport", 2, current_player).gs.state.tag = "WaitingForAuction"

\* --------------------------------------------------------------- C13

\* C13: in every reachable state current_player, if set, is a key of the players
\* map, and so is the chooser reference player_which_chose_question.
C13_TurnHolderRegistered ==
    /\ current_player # None => current_player \in Registered
    /\ player_which_chose_question # None => player_which_chose_question \in Registered

\* A buzz by the player who did not select the question is being judged: both
\* references are set, to different registered players.
C13_Witness ==
    /\ state.tag = "Answering"
    /\ current_player # None /\ player_which_chose_question # None
    /\ current_player # player_which_chose_question
    /\ {current_player, player_which_chose_question} \subseteq Registered

\* --------------------------------------------------------------- C14

\* C14: in every reachable state the falsestarted set and the answered set are
\* disjoint.
C14_SetsDisjoint == players_falsestarted \cap players_answered_current_question = {}

\* One player false-started and the other one has buzzed in the open window.
C14_Witness ==
    /\ state.tag = "Answering"
    /\ players_falsestarted # {}
    /\ players_answered_current_question # {}
    /\ players_falsestarted \cap players_answered_current_question = {}

\* --------------------------------------------------------------- C15

\* Every cost that is available in some topic of the board, the topics that
\* still have a cost, and the cost tiers of the active tour.
BoardCosts(S) == UNION { CostSet(S.questions[i].costs) : i \in 1..Len(S.questions) }
OpenTopics(S) == { S.questions[i].topic :
                      i \in { j \in 1..Len(S.questions) : Len(S.questions[j].costs) > 0 } }
TourTiers(S) == { k * tours[S.current_tour + 1].multiplier : k \in 1..questions_per_topic }

\* select_topic offers exactly the remaining costs of the chosen topic, and
\* next_question offers exactly the topics that still have a cost.
C15_BoardOffers ==
    \A u \in UserIds :
        /\ \A t \in TopicInputs :
              LET r == select_topic(GS, t, u).res
              IN \A k \in 1..Len(r) :
                     r[k].t = "ChooseQuestion" =>
                         /\ r[k].topic = t
                         /\ r[k].costs # << >>
                         /\ CostSet(r[k].costs) = Available(GS, t)
        /\ LET r == next_question(GS, u).res
           IN \A k \in 1..Len(r) :
                  r[k].t = "ChooseTopic" => r[k].topics = OpenTopics(GS)

\* C15 as stated: the costs offered by select_topic and the two costs offered by
\* select_cat_in_bag_player are, at the time of the offer, available on the
\* board (in some topic of it), and next_question offers exactly the topics
\* with a non-empty available set.
C15_Original ==
    /\ C15_BoardOffers
    /\ \A u \in UserIds, n \in NameInputs :
          LET r == select_cat_in_bag_player(GS, u, n).res
          IN \A k \in 1..Len(r) :
                 r[k].t = "CatInBagChooseCost" =>
                     CostSet(r[k].costs) \subseteq BoardCosts(GS)

\* C15 (amended): select_topic offers exactly the available costs of the chosen
\* topic and next_question exactly the topics with an available cost;
\* select_cat_in_bag_player offers the lowest and the highest cost tier of the
\* active tour (multiplier and multiplier * questions_per_topic), whether or
\* not a cell of that cost is still available on the board.
C15_OfferedCosts ==
    /\ C15_BoardOffers
    /\ \A u \in UserIds, n \in NameInputs :
          LET r == select_cat_in_bag_player(GS, u, n).res
          IN \A k \in 1..Len(r) :
                 r[k].t = "CatInBagChooseCost" =>
                     /\ current_tour + 1 \in DOMAIN tours
                     /\ r[k].costs = << tours[current_tour + 1].multiplier,
                                        tours[current_tour + 1].multiplier * questions_per_topic >>
                     /\ CostSet(r[k].costs) \subseteq TourTiers(GS)

\* The cat-in-bag player is being chosen while no cell of the highest tier is
\* left on the board: the highest tier is offered all the same.
C15_Witness ==
    /\ state.tag = "CatInBagChoosingPlayer"
    /\ current_player \in Registered
    /\ \E n \in NameInputs :
          LET r == select_cat_in_bag_player(GS, current_player, n).res
          IN /\ HasIntent(r, "CatInBagChooseCost")
             /\ \E k \in 1..Len(r) :
                   /\ r[k].t = "CatInBagChooseCost"
                   /\ ~(CostSet(r[k].costs) \subseteq BoardCosts(GS))

\* --------------------------------------------------------------- C16

\* What players.keys().next() may return in the current state.
FirstKeys == IF Registered = {} THEN {None} ELSE Registered

\* The board of tour 0 as loaded from the tour description.
TourZeroBoard ==
    [i \in 1..Len(tours[1].topics) |->
        [topic |-> tours[1].topics[i],
         costs |-> [k \in 1..questions_per_topic |-> tours[1].multiplier * k]]]

\* C16: the admin's start has an effect only in WaitingForPlayersToJoin and only
\* with at least one registered player; with no players it emits a notice and
\* the state stays WaitingForPlayersToJoin; on success the state is Pause,
\* current_player is a registered player, the tour index is 0 and the board
\* holds the costs multiplier*1..multiplier*N for every topic of tour 0; a
\* second start changes nothing.
C16_Start ==
    \A first \in FirstKeys :
        LET r == start(GS, admin_user, first)
        IN /\ state.tag # "WaitingForPlayersToJoin" => NoOp(r)
           /\ (state.tag = "WaitingForPlayersToJoin" /\ Registered = {}) =>
                  /\ r.gs = GS
                  /\ r.res = <<SendTextToMainChat("no players registered")>>
           /\ (state.tag = "WaitingForPlayersToJoin" /\ Registered # {}) =>
                  /\ r.gs.state = Pause
                  /\ r.gs.current_player \in Registered
                  /\ r.gs.current_tour = 0
                  /\ r.gs.questions = TourZeroBoard
                  /\ r.gs.current_multiplier = tours[1].multiplier
                  /\ r.gs.players = players
                  /\ \A again \in Registered :
                         start(r.gs, admin_user, again) = Ret(r.gs, << >>)

\* Two players have joined and the game has not started: start takes effect,
\* and the start that follows it does not.
C16_Witness ==
    /\ state.tag = "WaitingForPlayersToJoin"
    /\ Cardinality(Registered) = 2
    /\ \E first \in Registered :
          /\ start(GS, admin_user, first).gs.state = Pause
          /\ start(GS, admin_user, first).gs.questions # questions
          /\ NoOp(start(GS, 2, first))

\* --------------------------------------------------------------- C17

\* Outside WaitingForPlayersToJoin a join changes nothing and returns nothing.
C17_Rejected ==
    state.tag # "WaitingForPlayersToJoin" =>
        \A u \in UserIds, n \in Names : NoOp(add_player(GS, u, n))

\* WaitingForPlayersToJoin is never re-entered, the roster is fixed once it has
\* been left, and no player is ever removed or renamed.
C17_RosterFixed ==
    /\ state.tag # "WaitingForPlayersToJoin" =>
          /\ state'.tag # "WaitingForPlayersToJoin"
          /\ DOMAIN players' = DOMAIN players
    /\ \A p \in DOMAIN players :
          p \in DOMAIN players' /\ players'[p].name = players[p].name

\* C17: add_player is rejected whenever the session is not in
\* WaitingForPlayersToJoin (roster and scores unchanged); that state is never
\* re-entered once left, so the set of registered players is fixed from the
\* moment the game starts, and no player is ever removed.
C17_JoinOnlyBeforeStart == []C17_Rejected /\ [][C17_RosterFixed]_vars

\* The game has started with one player; a newcomer with a fresh identity and a
\* fresh name tries to join and is rejected.
C17_Witness ==
    /\ state.tag = "Pause"
    /\ Cardinality(Registered) = 1
    /\ \E u \in UserIds \ Registered, n \in Names :
          /\ find_player_by_name(GS, n) = None
          /\ NoOp(add_player(GS, u, n))

\* --------------------------------------------------------------- C18

\* The name is carried by a registered player.
NameTaken(n) == \E p \in Registered : players[p].name = n

\* C18 (join uniqueness): in WaitingForPlayersToJoin, add_player with a
\* registered identity or with the name of a registered player leaves the
\* roster unchanged and emits a rejection notice; otherwise it adds exactly one
\* player with score 0; names are unique in the roster in every reachable state
\* (identities are the keys of the map).
C18_JoinUnique ==
    /\ \A p, q \in Registered : players[p].name = players[q].name => p = q
    /\ state.tag = "WaitingForPlayersToJoin" =>
          \A u \in UserIds, n \in Names :
              LET r == add_player(GS, u, n)
              IN IF u \in Registered \/ NameTaken(n)
                 THEN /\ r.gs = GS
                      /\ r.res \in { <<SendTextToMainChat("player already exists")>>,
                                     <<SendTextToMainChat("name already exists")>> }
                 ELSE /\ DOMAIN r.gs.players = Registered \cup {u}
                      /\ r.gs.players[u] = [name |-> n, score |-> 0]
                      /\ \A p \in Registered : r.gs.players[p] = players[p]
                      /\ [r.gs EXCEPT !.players = players] = GS

\* One player has joined: a second request under their identity and a request
\* under their name are rejected, a request with a fresh identity and name is
\* accepted.
C18_Witness ==
    /\ state.tag = "WaitingForPlayersToJoin"
    /\ Registered = {2}
    /\ add_player(GS, 2, "new_2").gs = GS
    /\ add_player(GS, 3, players[2].name).gs = GS
    /\ DOMAIN add_player(GS, 3, "new_2").gs.players = {2, 3}

\* --------------------------------------------------------------- C19

\* The cells flagged manual that are not cat-in-bag cells, and the stored
\* questions behind them in the tours that hold their topic.
ManualCells == { m \in manual_questions : ~is_cat_in_bag(m[1], m[2]).some }
ManualCellQuestionIds ==
    LET hits == { x \in (DOMAIN tours) \X ManualCells :
                    \E i \in 1..Len(tours[x[1]].topics) : tours[x[1]].topics[i] = x[2][1] }
    IN { <<x[2][1], x[2][2] \div tours[x[1]].multiplier>> : x \in hits }

\* C19 (manual question): a successful select_question of a cell flagged manual
\* and not cat-in-bag moves the state directly to Pause, schedules no timer and
\* leaves scores and current_player unchanged; the session is never in
\* BeforeQuestionAsked, Falsestart, CanAnswer or Answering with that cell's
\* question.
C19_ManualQuestion ==
    /\ (state.tag = "WaitingForQuestion" /\ current_player # None) =>
          \A m \in ManualCells :
              m[2] \in Available(GS, m[1]) =>
                  LET r == select_question(GS, m[1], m[2], current_player)
                  IN /\ r.gs = [GS EXCEPT !.state = Pause, !.questions = r.gs.questions]
                     /\ m[2] \notin Available(r.gs, m[1])
                     /\ ~HasIntent(r.res, "Timeout")
                     /\ HasIntent(r.res, "SendToAdmin")
    /\ state.tag \in {"BeforeQuestionAsked", "Falsestart", "CanAnswer", "Answering"} =>
          state.question.id \notin ManualCellQuestionIds

\* The current player is about to pick the manual cell, which is on the board,
\* and picking it ends the round at once.
C19_Witness ==
    /\ state.tag = "WaitingForQuestion"
    /\ current_player \in Registered
    /\ \E m \in ManualCells :
          /\ m[2] \in Available(GS, m[1])
          /\ select_question(GS, m[1], m[2], current_player).gs.state = Pause
          /\ m[2] \notin Available(select_question(GS, m[1], m[2], current_player).gs, m[1])

\* --------------------------------------------------------------- C20

\* The cells flagged auction that are played as auctions (cat-in-bag and manual
\* take precedence in select_question).
AuctionCells ==
    { a \in auctions : ~is_cat_in_bag(a[1], a[2]).some /\ ~is_manual(a[1], a[2]) }

\* Selecting an available auction cell moves to WaitingForAuction.
C20_SelectAuction ==
    (state.tag = "WaitingForQuestion" /\ current_player # None) =>
        \A a \in AuctionCells :
            a[2] \in Available(GS, a[1]) =>
                select_question(GS, a[1], a[2], current_player).gs.state.tag
                    = "WaitingForAuction"

\* The outcome the claim describes for update_auction_cost(u, n, c).
C20_Outcome(u, n, c) ==
    LET r == update_auction_cost(GS, u, n, c)
        p == find_player_by_name(GS, n)
    IN IF state.tag = "WaitingForAuction" /\ u = admin_user /\ p # None
       THEN /\ r.gs = [GS EXCEPT !.current_player = p,
                                 !.player_which_chose_question = p,
                                 !.state = Answering(state.question, c, FALSE)]
            /\ LET yes == yes_reply(r.gs, admin_user).gs
                   no == no_reply(r.gs, admin_user).gs
               IN /\ Score(yes, p) = Score(GS, p) + c
                  /\ Score(no, p) = Score(GS, p) - c
                  /\ \A q \in Registered \ {p} :
                         Score(yes, q) = Score(GS, q) /\ Score(no, q) = Score(GS, q)
       ELSE NoOp(r)

\* C20 as stated (auction): selecting a cell flagged auction moves to
\* WaitingForAuction; update_auction_cost has an effect only in
\* WaitingForAuction, only from the admin and only for the name of a registered
\* player; on success the named player becomes current_player and chooser and
\* the state is Answering at the admin-supplied cost with anyone = FALSE, and
\* the following yes or no changes only that player's score, by that cost.
C20_Original ==
    /\ C20_SelectAuction
    /\ \A u \in UserIds, n \in NameInputs, c \in AuctionCostInputs : C20_Outcome(u, n, c)

\* The same for every cost that fits the signed score type.
C20_CostsInRange ==
    /\ C20_SelectAuction
    /\ \A u \in UserIds, n \in NameInputs :
          \A c \in { x \in AuctionCostInputs : x <= i64_MAX } : C20_Outcome(u, n, c)

\* An auction is waiting for its price, and the admin names a registered player
\* with a price above the largest signed value: the handler fails after it has
\* reassigned the turn and the chooser.
C20_Witness ==
    /\ state.tag = "WaitingForAuction"
    /\ \E n \in NameInputs :
          LET r == update_auction_cost(GS, admin_user, n, i64_MAX + 1).gs
          IN /\ find_player_by_name(GS, n) # None
             /\ r.panicked /\ r.state.tag = "WaitingForAuction"
             /\ r.current_player = find_player_by_name(GS, n)
             /\ r.current_player # current_player

\* --------------------------------------------------------------- C21

\* C21 (cat-in-bag player choice): in CatInBagChoosingPlayer,
\* select_cat_in_bag_player changes nothing when the caller is not
\* current_player, when the named player is the caller, or when the name is
\* unknown; on success the named other player becomes current_player and
\* chooser and the state becomes CatInBagChoosingCost; in any other state the
\* call is a no-op.
C21_CatInBagPlayer ==
    \A u \in UserIds, n \in NameInputs :
        LET r == select_cat_in_bag_player(GS, u, n)
            p == find_player_by_name(GS, n)
        IN IF state.tag = "CatInBagChoosingPlayer" /\ u = current_player
                /\ p # None /\ p # u
           THEN /\ r.gs = [GS EXCEPT !.current_player = p,
                                     !.player_which_chose_question = p,
                                     !.state = CatInBagChoosingCost(state.question)]
                /\ HasIntent(r.res, "CatInBagChooseCost")
           ELSE NoOp(r)

\* The current player has revealed a cat-in-bag in a two-player game: naming
\* the other player succeeds, naming themself or a stranger does not, and the
\* other player's own call is ignored.
C21_Witness ==
    /\ state.tag = "CatInBagChoosingPlayer"
    /\ current_player \in Registered
    /\ \E q \in Registered \ {current_player} :
          /\ select_cat_in_bag_player(GS, current_player, players[q].name).gs.current_player = q
          /\ NoOp(select_cat_in_bag_player(GS, q, players[q].name))
          /\ NoOp(select_cat_in_bag_player(GS, q, players[current_player].name))
    /\ NoOp(select_cat_in_bag_player(GS, current_player, players[current_player].name))
    /\ NoOp(select_cat_in_bag_player(GS, current_player, "nobody"))

\* --------------------------------------------------------------- C22

\* C22 as stated: select_cat_in_bag_player is accepted only from the player who
\* was current_player when select_question revealed the cat-in-bag, whatever
\* happened in between, and the player it hands the question to is never that
\* original picker.
C22_Original ==
    state.tag = "CatInBagChoosingPlayer" =>
        \A u \in UserIds, n \in NameInputs :
            LET r == select_cat_in_bag_player(GS, u, n)
            IN r.gs # GS => (u = picker /\ r.gs.current_player # picker)

\* The call is accepted only from the present current_player and never hands
\* the question to the caller.
C22_AcceptedFromTurnHolder ==
    state.tag = "CatInBagChoosingPlayer" =>
        \A u \in UserIds, n \in NameInputs :
            LET r == select_cat_in_bag_player(GS, u, n)
            IN r.gs # GS => (u = current_player /\ r.gs.current_player # u)

\* At the reveal current_player is the picker, and while the choice is pending
\* only the admin's change_player moves current_player.
C22_TurnDuringChoice ==
    /\ (state.tag = "WaitingForQuestion" /\ state'.tag = "CatInBagChoosingPlayer") =>
           (picker' \in Registered /\ current_player' = picker')
    /\ (state.tag = "CatInBagChoosingPlayer" /\ state'.tag = "CatInBagChoosingPlayer"
           /\ current_player' # current_player) =>
           \E n \in NameInputs : GSNext = change_player(GS, admin_user, n).gs

\* C22 (amended): select_cat_in_bag_player is accepted only from the player who
\* is current_player at the time of the call, and never hands the question to
\* the caller; that player is the one who revealed the cat-in-bag unless the
\* admin reassigned the turn with change_player while in CatInBagChoosingPlayer,
\* in which case the reassigned player chooses and may name the original picker.
C22_CatInBagChooser == []C22_AcceptedFromTurnHolder /\ [][C22_TurnDuringChoice]_vars

\* The admin has reassigned the turn during the choice: the new turn holder's
\* call is accepted and hands the question to the original picker, whose own
\* call is ignored.
C22_Witness ==
    /\ state.tag = "CatInBagChoosingPlayer"
    /\ picker \in Registered /\ current_player \in Registered
    /\ current_player # picker
    /\ select_cat_in_bag_player(GS, current_player, players[picker].name).gs.current_player
           = picker
    /\ \A n \in NameInputs : NoOp(select_cat_in_bag_player(GS, picker, n))

\* --------------------------------------------------------------- C23

TourBoard(k) ==
    IF k + 1 \in DOMAIN tours
    THEN [i \in 1..Len(tours[k + 1].topics) |->
             [topic |-> tours[k + 1].topics[i],
              costs |-> [j \in 1..questions_per_topic |-> tours[k + 1].multiplier * j]]]
    ELSE << >>

\* The admin's next_tour acts only in Pause and WaitingForTopic: tour index plus
\* one, the full board of the new tour, everything else but the multiplier kept.
C24_NextTourEffect ==
    LET r == next_tour(GS, admin_user)
    IN IF state.tag \in {"Pause", "WaitingForTopic"}
       THEN /\ r.gs.current_tour = current_tour + 1
            /\ r.gs.questions = TourBoard(current_tour + 1)
            /\ r.gs.players = players
            /\ r.gs.current_player = current_player
            /\ r.gs.state = state
            /\ [r.gs EXCEPT !.current_tour = current_tour, !.questions = questions,
                            !.current_multiplier = current_multiplier] = GS
       ELSE NoOp(r)

\* C24: next_tour by the admin has an effect only in Pause or WaitingForTopic;
\* it increases the tour index by exactly 1, replaces the board by the full
\* board of the new tour and leaves scores, current_player and the state
\* unchanged; the tour index never decreases.
C24_NextTour == []C24_NextTourEffect /\ [][current_tour' >= current_tour]_vars

\* Tour 0 is being played with a cell already taken, and the admin moves on to
\* the next tour, whose board is complete.
C24_Witness ==
    /\ state.tag = "Pause" /\ current_tour = 0
    /\ questions # TourBoard(0) /\ Len(questions) > 0
    /\ next_tour(GS, admin_user).gs.questions = TourBoard(1)
    /\ Len(TourBoard(1)) > 0
    /\ \E p \in Registered : Score(GS, p) # 0

\* --------------------------------------------------------------- C25

\* The session S has the scores of the current state (players may have joined).
SameScores(S) == \A p \in Registered : p \in DOMAIN S.players /\ Score(S, p) = Score(GS, p)

\* The scores of S differ from the current ones at most for player p, by d.
OnlyScoreOf(S, p, d) ==
    /\ DOMAIN S.players = Registered
    /\ \A q \in Registered : Score(S, q) = Score(GS, q) + (IF q = p THEN d ELSE 0)

\* C25: scores change only through judged answers and the admin override:
\* yes_reply and no_reply change only current_player's score, by +cost and
\* -cost, update_score sets only the named player's score, and every other
\* action, a buzz during Falsestart included, leaves all scores unchanged.
C25_ScoreFrame ==
    /\ \A u \in UserIds :
          /\ \A n \in Names : SameScores(add_player(GS, u, n).gs)
          /\ \A first \in FirstKeys : SameScores(start(GS, u, first).gs)
          /\ SameScores(next_tour(GS, u).gs)
          /\ SameScores(message(GS, u).gs)
          /\ SameScores(next_question(GS, u).gs)
          /\ \A t \in TopicInputs :
                /\ SameScores(select_topic(GS, t, u).gs)
                /\ \A c \in CostInputs :
                      /\ SameScores(select_question(GS, t, c, u).gs)
                      /\ SameScores(hide_question(GS, t, c, u).gs)
          /\ \A n \in NameInputs :
                /\ SameScores(select_cat_in_bag_player(GS, u, n).gs)
                /\ SameScores(change_player(GS, u, n).gs)
                /\ \A c \in AuctionCostInputs :
                      SameScores(update_auction_cost(GS, u, n, c).gs)
                /\ \A v \in ScoreInputs :
                      LET p == find_player_by_name(GS, n)
                      IN IF u = admin_user /\ p # None
                         THEN OnlyScoreOf(update_score(GS, n, v, u).gs, p, v - Score(GS, p))
                         ELSE SameScores(update_score(GS, n, v, u).gs)
          /\ \A c \in CostInputs : SameScores(select_cat_in_bag_cost(GS, u, c).gs)
          /\ SameScores(get_score(GS, u).gs)
          /\ SameScores(current_player_query(GS, u).gs)
          /\ IF u = admin_user /\ state.tag = "Answering"
             THEN /\ OnlyScoreOf(yes_reply(GS, u).gs, current_player, state.cost)
                  /\ OnlyScoreOf(no_reply(GS, u).gs, current_player, -state.cost)
             ELSE SameScores(yes_reply(GS, u).gs) /\ SameScores(no_reply(GS, u).gs)
    /\ SameScores(timeout(GS).gs)

\* A player with a non-zero score buzzes too early: the buzz is recorded as a
\* false start and no score moves.
C25_Witness ==
    /\ state.tag = "Falsestart"
    /\ \E u \in Registered :
          /\ Score(GS, u) # 0
          /\ u \in message(GS, u).gs.players_falsestarted
          /\ u \notin players_falsestarted
          /\ message(GS, u).gs.players = players

\* The selections whose lookup in the question source qs comes back empty:
\* the turn holder names an available cell that is not a cat in the bag (for
\* which the source is not consulted) and qs holds no question for its tier.
LookupFails(S, topic, cost, user, qs) ==
    /\ S.state.tag = "WaitingForQuestion"
    /\ is_current_player(S, user)
    /\ cost \in Available(S, topic)
    /\ ~is_cat_in_bag(topic, cost).some
    /\ S.current_multiplier # 0
    /\ ~StorageGetFrom(qs, topic, cost \div S.current_multiplier).some

\* C26: when select_question by current_player in WaitingForQuestion names an
\* available (topic, cost) and the question source returns no question for it,
\* the cost is removed from the board all the same, the state stays
\* WaitingForQuestion, scores, current_player and chooser are unchanged, no
\* intents are emitted, nothing panics, and the session goes on accepting
\* actions: the turn holder's selection of any cell still on the board is
\* accepted.
C26_LookupFailure ==
    \A u \in UserIds, t \in TopicInputs, c \in CostInputs, qs \in Storages :
        LookupFails(GS, t, c, u, qs) =>
            LET r == select_question_from(GS, t, c, u, qs)
            IN /\ (c \notin Available(r.gs, t))
               /\ \A t2 \in TopicInputs, c2 \in CostInputs :
                      <<t2, c2>> # <<t, c>> =>
                          (c2 \in Available(r.gs, t2) <=> c2 \in Available(GS, t2))
               /\ r.gs.state = WaitingForQuestion
               /\ SameScores(r.gs)
               /\ r.gs.current_player = current_player
               /\ r.gs.player_which_chose_question = player_which_chose_question
               /\ r.res = << >>
               /\ ~r.gs.panicked
               /\ \A t2 \in TopicInputs, c2 \in CostInputs :
                      c2 \in Available(r.gs, t2) =>
                          select_question(r.gs, t2, c2, u).gs.state.tag
                              # "WaitingForQuestion"

\* The turn holder can select a cell that is on the board but absent from the
\* source handed to select_question, with another cell of the topic on offer.
C26_Witness ==
    /\ 2 \in Available(GS, "Sport")
    /\ \E u \in UserIds, qs \in Storages : LookupFails(GS, "Sport", 1, u, qs)

\* C27: once a session has been constructed, no sequence of inbound actions
\* reaches a panic: close_unanswered_question and close_answered_question are
\* never reached with current_player unset, select_question never divides by
\* a zero multiplier, and update_auction_cost never fails its cost conversion.
C27_Original == ~panicked

\* The panics that can be reached all come from the cost conversion of
\* update_auction_cost: a panic follows only a WaitingForAuction state, so the
\* close_* helpers always find a current_player and select_question never
\* divides by zero.
C27_OnlyConversionPanics ==
    [][panicked' => state.tag = "WaitingForAuction"]_vars

\* The admin is about to set an auction cost: a question is up for auction and
\* a registered player can be named.
C27_Witness ==
    /\ state.tag = "WaitingForAuction"
    /\ \E n \in NameInputs : find_player_by_name(GS, n) # None
    /\ ~try_into_i64(i64_MAX + 1).ok

\* ------------------------------------------------------- ScoreTable text

\* The text of a topic name as its sequence of Unicode scalar values. The
\* name written "privet" here stands for the Cyrillic name of
\* test_score_table_to_string (U+043F U+0440 U+0438 U+0432 U+0435 U+0442).
chars(name) ==
    CASE name = "a" -> <<97>>
      [] name = "Sport" -> <<83, 112, 111, 114, 116>>
      [] name = "Movies" -> <<77, 111, 118, 105, 101, 115>>
      [] name = "Music" -> <<77, 117, 115, 105, 99>>
      [] name = "privet" -> <<1087, 1088, 1080, 1074, 1077, 1090>>
      [] OTHER -> << >>

\* Bytes of one scalar value in UTF-8.
len_utf8(c) == IF c < 128 THEN 1 ELSE IF c < 2048 THEN 2 ELSE IF c < 65536 THEN 3 ELSE 4

RECURSIVE len(_)
\* String::len: the length in bytes.
len(text) == IF text = << >> THEN 0 ELSE len_utf8(Head(text)) + len(Tail(text))

\* Variant for sensitivity analysis: lengths are taken in bytes.
chars_count_in_bytes(text) == len(text)

\* str::chars().count()
chars_count(text) == Len(text)

Bar == 124
Space == 32
Cross == 120
Newline == 10

RECURSIVE max_length(_, _, _)
\* The first loop of to_string: the longest name, in characters.
max_length(data, i, topic_length) ==
    IF i > Len(data) THEN topic_length
    ELSE LET this_length == chars_count(chars(data[i].name))
         IN max_length(data, i + 1,
                       IF this_length > topic_length THEN this_length ELSE topic_length)

RECURSIVE pad(_, _)
\* while row.chars().count() < width { row.push_str(" ") }
pad(row, width) ==
    IF chars_count(row) < width THEN pad(Append(row, Space), width) ELSE row

RECURSIVE marks(_, _, _, _)
\* The inner loops of to_string: a mark and a bar for every column.
marks(row, scores, item_questions, j) ==
    IF j > Len(scores) THEN row
    ELSE marks(row \o <<(IF Contains(item_questions, scores[j]) THEN Cross ELSE Space), Bar>>,
               scores, item_questions, j + 1)

\* One row of the table.
table_row(table, item) ==
    LET topic_length == max_length(table.data, 1, 0)
        named == pad(<<Bar>> \o chars(item.name), topic_length + 1)
    IN marks(Append(named, Bar), table.scores, item.questions, 1)

rows(table) == [i \in 1..Len(table.data) |-> table_row(table, table.data[i])]

RECURSIVE join(_, _)
\* rows.join(sep)
join(rs, sep) ==
    IF rs = << >> THEN << >>
    ELSE IF Len(rs) = 1 THEN rs[1]
    ELSE rs[1] \o <<sep>> \o join(Tail(rs), sep)

to_string(table) == join(rows(table), Newline)

\* The score table next_question emits for the admin, and whether it emits one.
EmitsScoreTable == current_player # None
ScoreTableOf(S) == next_question(S, admin_user).res[1].table

\* The costs of a topic taken so far in the active tour.
Taken(S, topic) ==
    IF S.current_tour + 1 \in DOMAIN tours THEN TourTiers(S) \ Available(S, topic) ELSE {}

\* The mark of column j in rendered row i: the character before the j-th bar
\* after the name.
MarkAt(table, i, j) == rows(table)[i][max_length(table.data, 1, 0) + 1 + 2 * j]

\* C28 (as stated): the score table emitted by next_question pairs each topic
\* of the active tour with the costs taken so far in that tour, so that an 'x'
\* in the rendered grid marks a taken cell.
C28_Original ==
    EmitsScoreTable =>
        LET table == ScoreTableOf(GS)
        IN \A i \in 1..Len(table.data) :
               /\ CostSet(table.data[i].questions) = Taken(GS, table.data[i].name)
               /\ \A j \in 1..Len(table.scores) :
                      MarkAt(table, i, j) = Cross
                          <=> table.scores[j] \in Taken(GS, table.data[i].name)

\* C28 (amended): the score table emitted by next_question has one row per
\* topic of the board, in board order, paired with the list of costs still
\* available for it, and the tiers of the active multiplier as columns, so
\* that an 'x' in the rendered grid marks a cell still on the board and a
\* space marks a taken one.
C28_ScoreTableShowsAvailable ==
    EmitsScoreTable =>
        LET r == next_question(GS, admin_user)
            table == ScoreTableOf(GS)
        IN /\ r.res[1].t = "SendScoreTable"
           /\ Len(table.data) = Len(questions)
           /\ table.scores = [k \in 1..questions_per_topic |-> k * current_multiplier]
           /\ \A i \in 1..Len(table.data) :
                  /\ table.data[i].name = questions[i].topic
                  /\ table.data[i].questions = questions[i].costs
                  /\ \A j \in 1..Len(table.scores) :
                         /\ MarkAt(table, i, j) \in {Cross, Space}
                         /\ MarkAt(table, i, j) = Cross
                                <=> table.scores[j] \in Available(GS, table.data[i].name)
                         /\ state.tag # "WaitingForPlayersToJoin" =>
                                (MarkAt(table, i, j) = Space
                                    <=> table.scores[j] \in Taken(GS, table.data[i].name))

\* A score table is due while one cell of a topic is taken and another is not.
C28_Witness ==
    /\ EmitsScoreTable
    /\ state = Pause
    /\ current_tour = 0
    /\ 1 \in Taken(GS, "Sport")
    /\ 2 \in Available(GS, "Sport")

\* ---------------------------------------------------------- GameState::new

\* The inputs of GameState::new: a question source, given by the keys it holds
\* and the tours it lists, and the number of questions per topic.
MaxPerTopic == 3
TourLists == {tours, << >>, <<tours[2]>>}
NewInputs ==
    [admin_user : {admin_user},
     held : SUBSET FullStorage,
     tours : TourLists,
     questions_per_topic : 0..MaxPerTopic]

Ok(value) == [ok |-> TRUE, value |-> value]
Err(error) == [ok |-> FALSE, error |-> error]
NotFound == [found |-> FALSE]

RECURSIVE missing_tier(_, _, _, _)
\* for i in 0..questions_per_topic: the first tier the source has no question for.
missing_tier(held, topic_name, i, per_topic) ==
    IF i >= per_topic THEN NotFound
    ELSE IF ~StorageGetFrom(held, topic_name, i + 1).some
    THEN [found |-> TRUE, topic_name |-> topic_name, question_num |-> i + 1]
    ELSE missing_tier(held, topic_name, i + 1, per_topic)

RECURSIVE missing_in_topics(_, _, _, _)
\* for topic in tour.topics.iter()
missing_in_topics(held, topics, t, per_topic) ==
    IF t > Len(topics) THEN NotFound
    ELSE LET m == missing_tier(held, topics[t], 0, per_topic)
         IN IF m.found THEN m ELSE missing_in_topics(held, topics, t + 1, per_topic)

RECURSIVE missing_in_tours(_, _, _, _)
\* for tour in tours.iter()
missing_in_tours(held, tour_list, k, per_topic) ==
    IF k > Len(tour_list) THEN NotFound
    ELSE LET m == missing_in_topics(held, tour_list[k].topics, 1, per_topic)
         IN IF m.found THEN m ELSE missing_in_tours(held, tour_list, k + 1, per_topic)

\* Variant for sensitivity analysis: only the first tier of every topic is looked up.
new_checking_first_tier(in) ==
    IF in.questions_per_topic = 0 THEN Err("questions per topic can't be zero")
    ELSE LET m == missing_in_tours(in.held, in.tours, 1, 1)
         IN IF m.found THEN Err([topic_name |-> m.topic_name, question_num |-> m.question_num])
            ELSE Ok(NewGameState @@ [admin_user |-> in.admin_user,
                                     questions_per_topic |-> in.questions_per_topic,
                                     tours |-> in.tours])

new(in) ==
    IF in.questions_per_topic = 0 THEN Err("questions per topic can't be zero")
    ELSE LET m == missing_in_tours(in.held, in.tours, 1, in.questions_per_topic)
         IN IF m.found THEN Err([topic_name |-> m.topic_name, question_num |-> m.question_num])
            ELSE Ok(NewGameState @@ [admin_user |-> in.admin_user,
                                     questions_per_topic |-> in.questions_per_topic,
                                     tours |-> in.tours])

\* The session variables hold the freshly built session of the fixture.
FreshSession ==
    /\ state = NewGameState.state
    /\ players = NewGameState.players
    /\ current_player = NewGameState.current_player
    /\ player_which_chose_question = NewGameState.player_which_chose_question
    /\ questions = NewGameState.questions
    /\ players_falsestarted = NewGameState.players_falsestarted
    /\ players_answered_current_question = NewGameState.players_answered_current_question
    /\ current_tour = NewGameState.current_tour
    /\ current_multiplier = NewGameState.current_multiplier
    /\ panicked = NewGameState.panicked
    /\ picker = None
    /\ buzzer = None
    /\ NoTimers
    /\ NoThreads
    /\ NoEpisodes

NewInit ==
    /\ FreshSession
    /\ call \in NewInputs
    /\ result = NotCalled

Construct ==
    /\ ~result.made
    /\ result' = Returned(new(call))
    /\ UNCHANGED <<gvars, picker, buzzer, call, tvars, mvars, episodes>>

NewNext == Construct

NewSpec == NewInit /\ [][NewNext]_vars

\* Some topic of some tour of the source has no question for some tier in
\* 1..=questions_per_topic.
LacksQuestion(in) ==
    \E k \in 1..Len(in.tours) :
        \E t \in 1..Len(in.tours[k].topics), tier \in 1..in.questions_per_topic :
            <<in.tours[k].topics[t], tier>> \notin in.held

\* C29: GameState::new returns an error exactly when questions_per_topic is 0
\* or some topic of some tour lacks a question for some tier in
\* 1..=questions_per_topic in the question source; otherwise it returns a
\* session in WaitingForPlayersToJoin with an empty roster, no current_player
\* and tour index 0.
C29_New ==
    result.made =>
        /\ ~result.ret.ok <=> (call.questions_per_topic = 0 \/ LacksQuestion(call))
        /\ result.ret.ok =>
              /\ result.ret.value.state = WaitingForPlayersToJoin
              /\ DOMAIN result.ret.value.players = {}
              /\ result.ret.value.current_player = None
              /\ result.ret.value.current_tour = 0

\* A construction was refused because the last tier of a topic of the second
\* tour is missing from the source.
C29_Witness ==
    /\ result.made
    /\ ~result.ret.ok
    /\ call.questions_per_topic = 2
    /\ call.tours = tours
    /\ call.held = FullStorage \ {<<"Music", 2>>}

\* ----------------------------------------------------- ScoreTable::to_string

\* The tables rendered: up to MaxRows rows over a few names (one of them
\* multi-byte, one empty) and cost lists, under a few column lists (empty,
\* unsorted, with a repeated cost).
MaxRows == 2
TableNames == {"a", "privet", "Sport", ""}
QuestionLists == {<< >>, <<10, 20>>, <<30>>, <<20, 40>>}
ScoreLists == {<< >>, <<10>>, <<10, 30, 20>>, <<20, 10>>, <<10, 10>>}
ScoreTableItems == [name : TableNames, questions : QuestionLists]
ScoreTables ==
    [scores : ScoreLists,
     data : UNION { [1..n -> ScoreTableItems] : n \in 0..MaxRows }]

RenderInit ==
    /\ FreshSession
    /\ call \in ScoreTables
    /\ result = NotCalled

Render ==
    /\ ~result.made
    /\ result' = Returned(to_string(call))
    /\ UNCHANGED <<gvars, picker, buzzer, call, tvars, mvars, episodes>>

RenderNext == Render

RenderSpec == RenderInit /\ [][RenderNext]_vars

\* The longest name of the table, in characters (0 for an empty table).
NameWidth(table) ==
    LET lengths == { Len(chars(table.data[i].name)) : i \in 1..Len(table.data) } \cup {0}
    IN CHOOSE w \in lengths : \A v \in lengths : v <= w

\* Every line has the same number of characters: bar, padded name, bar, and a
\* mark and a bar per column.
LineLength(table) == NameWidth(table) + 2 + 2 * Len(table.scores)

\* The character the claim puts at position p of the line of row i.
LineChar(table, i, p) ==
    LET W == NameWidth(table)
        name == chars(table.data[i].name)
    IN IF p = 1 \/ p = W + 2 THEN Bar
       ELSE IF p <= Len(name) + 1 THEN name[p - 1]
       ELSE IF p <= W + 1 THEN Space
       ELSE IF (p - (W + 2)) % 2 = 0 THEN Bar
       ELSE IF table.scores[(p - (W + 2) + 1) \div 2] \in CostSet(table.data[i].questions)
       THEN Cross
       ELSE Space

\* C30: ScoreTable::to_string renders one line per topic, lines joined by a
\* newline; each line is '|', the topic name padded with spaces to the
\* maximum topic-name length counted in characters (not bytes), '|', and then
\* for each cost of the column list, in its given order, 'x' if that cost is
\* in the topic's list and ' ' otherwise, followed by '|'.
C30_ToString ==
    result.made =>
        LET n == Len(call.data)
            L == LineLength(call)
            text == result.ret
        IN /\ Len(text) = IF n = 0 THEN 0 ELSE n * L + (n - 1)
           /\ \A i \in 1..n :
                  /\ \A p \in 1..L : text[(i - 1) * (L + 1) + p] = LineChar(call, i, p)
                  /\ i < n => text[i * (L + 1)] = Newline

\* The second table of test_score_table_to_string has been rendered: a short
\* name is padded to the six characters of the twelve-byte one.
C30_Witness ==
    /\ result.made
    /\ call = [scores |-> <<10, 30, 20>>,
               data |-> <<[name |-> "a", questions |-> <<10, 20>>],
                          [name |-> "privet", questions |-> <<30>>]>>]
    /\ result.ret = <<124, 97, 32, 32, 32, 32, 32, 124, 120, 124, 32, 124, 120, 124, 10,
                      124, 1087, 1088, 1080, 1074, 1077, 1090, 124, 32, 124, 120, 124,
                      32, 124>>

\* -------------------------------------------------------- bid-order resolver

\* The resolver's inputs: three bidders, named in alphabetical order, with
\* scores around the bids, any set of them passed, any of them bidding.
Bidders == <<"A", "B", "C">>
BidderNames == {Bidders[i] : i \in 1..Len(Bidders)}
BidScores == {10, 700, 800, 1000, 10000}
BidAmounts == {800, 1000}
BidInputs ==
    [current : BidderNames,
     bid : BidAmounts,
     scores : [BidderNames -> BidScores],
     passed : SUBSET BidderNames]

NoNextBidder == "no next bidder"

\* Names compare as strings: by their place in the alphabetical list.
NameIndex(name) == CHOOSE i \in 1..Len(Bidders) : Bidders[i] = name

\* (score ascending, name ascending)
Before(scores, p, q) ==
    \/ scores[p] < scores[q]
    \/ scores[p] = scores[q] /\ NameIndex(p) < NameIndex(q)

RECURSIVE insert_sorted(_, _, _)
insert_sorted(scores, sorted, p) ==
    IF sorted = << >> THEN <<p>>
    ELSE IF Before(scores, p, Head(sorted)) THEN <<p>> \o sorted
    ELSE <<Head(sorted)>> \o insert_sorted(scores, Tail(sorted), p)

RECURSIVE sort_players(_, _, _)
\* Step 1: all players sorted by (score, name).
sort_players(scores, i, sorted) ==
    IF i > Len(Bidders) THEN sorted
    ELSE sort_players(scores, i + 1, insert_sorted(scores, sorted, Bidders[i]))

\* Variant for sensitivity analysis: a bid can be matched at any time.
eligible_matching_all_in(in, p) ==
    /\ p \notin in.passed
    /\ in.scores[p] >= in.bid

\* Step 2: not passed, and able to exceed the bid, or to match it unless the
\* current bidder is all-in at that amount.
eligible(in, p) ==
    /\ p \notin in.passed
    /\ \/ in.scores[p] > in.bid
       \/ in.scores[p] = in.bid /\ in.scores[in.current] # in.bid

RECURSIVE scan(_, _, _, _)
\* Step 3: forward from just after the current bidder, wrapping, stopping
\* before the current bidder comes round again.
scan(in, sorted, pos, k) ==
    IF k >= Len(sorted) THEN NoNextBidder
    ELSE LET p == sorted[((pos - 1 + k) % Len(sorted)) + 1]
         IN IF eligible(in, p) THEN p ELSE scan(in, sorted, pos, k + 1)

next_bidder(in) ==
    LET sorted == sort_players(in.scores, 1, << >>)
        pos == CHOOSE i \in 1..Len(sorted) : sorted[i] = in.current
    IN scan(in, sorted, pos, 1)

BidInit ==
    /\ FreshSession
    /\ call \in BidInputs
    /\ result = NotCalled

Resolve ==
    /\ ~result.made
    /\ result' = Returned(next_bidder(call))
    /\ UNCHANGED <<gvars, picker, buzzer, call, tvars, mvars, episodes>>

BidNext == Resolve

BidSpec == BidInit /\ [][BidNext]_vars

\* The place of a player in the order by (score, name), counted from 0, and the
\* number of steps forward, cyclically, from the current bidder to a player.
Rank(in, p) == Cardinality({q \in BidderNames : Before(in.scores, q, p)})
StepsFromCurrent(in, p) ==
    (Rank(in, p) - Rank(in, in.current)) % Cardinality(BidderNames)

\* The players other than the current bidder that may act on the bid.
Challengers(in) ==
    {p \in BidderNames \ {in.current} :
        /\ p \notin in.passed
        /\ \/ in.scores[p] > in.bid
           \/ in.scores[p] = in.bid /\ in.scores[in.current] # in.bid}

\* C31: the resolver returns the first eligible player met when scanning the
\* players sorted by (score, name) cyclically from just after the current
\* bidder up to just before the current bidder, eligible meaning not passed and
\* score above the bid, or equal to it while the current bidder's score is
\* not; with no eligible player it returns 'no next bidder'. The result is
\* never the current bidder, a passed player or a player with a score below
\* the bid.
C31_NextBidder ==
    result.made =>
        /\ Challengers(call) = {} <=> result.ret = NoNextBidder
        /\ Challengers(call) # {} =>
              /\ result.ret \in Challengers(call)
              /\ \A p \in Challengers(call) :
                     StepsFromCurrent(call, result.ret) <= StepsFromCurrent(call, p)
        /\ result.ret # NoNextBidder =>
              /\ result.ret # call.current
              /\ result.ret \notin call.passed
              /\ call.scores[result.ret] >= call.bid
        /\ (call.passed = BidderNames \ {call.current}) => result.ret = NoNextBidder

\* The resolver has answered the example with scores A 1000, B 700, C 10000,
\* B passed, A bidding 800: C is next; and with C bidding, A is next, the
\* scan wrapping past B who has passed.
C31_Witness ==
    /\ result.made
    /\ call = [current |-> "A", bid |-> 800,
               scores |-> [p \in BidderNames |->
                              IF p = "A" THEN 1000 ELSE IF p = "B" THEN 700 ELSE 10000],
               passed |-> {"B"}]
    /\ result.ret = "C"
    /\ next_bidder([call EXCEPT !.current = "C"]) = "A"

\* ------------------------------------------------------------ TimeoutStream

\* What travels on the channel: Some(timer) or None (a cancel).
SomeTimer(timer) == [some |-> TRUE, timer |-> timer]
NoTimer == [some |-> FALSE]

\* The outcomes of polling a timer future, and of polling the stream.
TimerPolls == {"Ready", "NotReady", "Err"}

\* The variables of the stream as one value.
TS == [new_timers_stream |-> new_timers_stream, inflight_timer |-> inflight_timer]

RECURSIVE drain(_, _)
\* The loop of poll: every item received replaces the in-flight timer, by a
\* new timer or by nothing, until the channel has no more.
drain(pending, inflight) ==
    IF pending = << >> THEN inflight
    ELSE drain(Tail(pending), Head(pending))

\* Variant for sensitivity analysis: the in-flight timer is polled before the
\* channel is read.
poll_before_receiving(ts, timer_poll) ==
    IF ~ts.inflight_timer.some
    THEN [ts |-> [new_timers_stream |-> << >>,
                  inflight_timer |-> drain(ts.new_timers_stream, ts.inflight_timer)],
          res |-> "NotReady"]
    ELSE IF timer_poll = "Ready"
    THEN [ts |-> [ts EXCEPT !.inflight_timer = NoTimer],
          res |-> "Ready", timer |-> ts.inflight_timer.timer]
    ELSE [ts |-> ts, res |-> timer_poll]

\* TimeoutStream::poll, timer_poll being what the in-flight timer answers if it
\* is polled.
poll(ts, timer_poll) ==
    LET inflight == drain(ts.new_timers_stream, ts.inflight_timer)
        received == [new_timers_stream |-> << >>, inflight_timer |-> inflight]
    IN IF ~inflight.some THEN [ts |-> received, res |-> "NotReady"]
       ELSE IF timer_poll = "Ready"
       THEN [ts |-> [received EXCEPT !.inflight_timer = NoTimer],
             res |-> "Ready", timer |-> inflight.timer]
       ELSE [ts |-> received, res |-> timer_poll]

\* At most MaxTimers timers and MaxSubmissions items are ever sent.
MaxTimers == 3
MaxSubmissions == 5
TimersSent == Len(SelectSeq(submitted, LAMBDA item : item.some))

StreamInit ==
    /\ FreshSession
    /\ call = None
    /\ result = NotCalled

\* sender.send(Some(timer)): timers are numbered in the order they are made.
SendTimer ==
    /\ TimersSent < MaxTimers
    /\ Len(submitted) < MaxSubmissions
    /\ new_timers_stream' = Append(new_timers_stream, SomeTimer(TimersSent + 1))
    /\ submitted' = Append(submitted, SomeTimer(TimersSent + 1))
    /\ UNCHANGED <<gvars, picker, buzzer, cvars, inflight_timer, events, mvars, episodes>>

\* sender.send(None)
SendCancel ==
    /\ Len(submitted) < MaxSubmissions
    /\ new_timers_stream' = Append(new_timers_stream, NoTimer)
    /\ submitted' = Append(submitted, NoTimer)
    /\ UNCHANGED <<gvars, picker, buzzer, cvars, inflight_timer, events, mvars, episodes>>

Poll ==
    \E timer_poll \in TimerPolls :
        LET r == poll(TS, timer_poll)
        IN /\ new_timers_stream' = r.ts.new_timers_stream
           /\ inflight_timer' = r.ts.inflight_timer
           /\ events' = IF r.res = "Ready" THEN Append(events, r.timer) ELSE events
           /\ UNCHANGED <<gvars, picker, buzzer, cvars, submitted, mvars, episodes>>

StreamNext == SendTimer \/ SendCancel \/ Poll

StreamSpec == StreamInit /\ [][StreamNext]_vars

\* The last item sent.
LastSubmitted == submitted[Len(submitted)]

\* C32: TimeoutStream delivers a timeout event only for the most recently
\* submitted timer that has not been cancelled: an event delivered by a poll
\* is that of the last item sent, which is a timer; every poll leaves the
\* channel empty, having applied all that was sent; once all sent items are
\* applied the in-flight timer is the last item sent, if that is a timer
\* with no event yet, and none otherwise (after a cancel or a delivery); and
\* no timer yields two events.
C32_Delivery ==
    [][events' # events =>
          /\ submitted # << >>
          /\ LastSubmitted.some
          /\ events' = Append(events, LastSubmitted.timer)
          /\ new_timers_stream' = << >>
          /\ ~inflight_timer'.some]_vars

C32_Applied ==
    [][new_timers_stream' = << >> =>
          inflight_timer' =
              IF submitted' # << >> /\ submitted'[Len(submitted')].some
                 /\ submitted'[Len(submitted')].timer
                        \notin {events'[i] : i \in 1..Len(events')}
              THEN submitted'[Len(submitted')]
              ELSE NoTimer]_vars

C32_PollReceivesAll ==
    [][(submitted' = submitted /\ <<new_timers_stream, inflight_timer, events>>'
                                   # <<new_timers_stream, inflight_timer, events>>)
          => new_timers_stream' = << >>]_vars

C32_AtMostOnce ==
    \A i, j \in 1..Len(events) : events[i] = events[j] => i = j

C32_TimeoutStream ==
    /\ C32_Delivery
    /\ C32_Applied
    /\ C32_PollReceivesAll
    /\ []C32_AtMostOnce

\* Timer 2 replaced timer 1 before any poll, then was delivered, and a cancel
\* followed it.
C32_Witness ==
    /\ submitted = <<SomeTimer(1), SomeTimer(2), NoTimer>>
    /\ events = <<2>>
    /\ new_timers_stream = << >>
    /\ ~inflight_timer.some

\* ------------------------------------------- the session with its timer

\* The inbound actions other than the timeout, each handled by Do.
AnyUpdate(Do(_, _)) ==
    \/ \E j \in JoinInputs : Do(j[1], add_player(GS, j[1], j[2]))
    \/ \E u \in UserIds :
           \E first \in (IF DOMAIN players = {} THEN {None} ELSE DOMAIN players) :
               Do(u, start(GS, u, first))
    \/ /\ current_tour < MaxTour
       /\ \E u \in UserIds : Do(u, next_tour(GS, u))
    \/ \E u \in UserIds : Do(u, message(GS, u))
    \/ \E u \in UserIds : Do(u, next_question(GS, u))
    \/ \E u \in UserIds : Do(u, yes_reply(GS, u))
    \/ \E u \in UserIds : Do(u, no_reply(GS, u))
    \/ \E u \in UserIds, t \in TopicInputs : Do(u, select_topic(GS, t, u))
    \/ \E u \in UserIds, t \in TopicInputs, c \in CostInputs, qs \in Storages :
           Do(u, select_question_from(GS, t, c, u, qs))
    \/ \E u \in UserIds, n \in NameInputs, c \in AuctionCostInputs :
           Do(u, update_auction_cost(GS, u, n, c))
    \/ \E u \in UserIds, n \in NameInputs : Do(u, select_cat_in_bag_player(GS, u, n))
    \/ \E u \in UserIds, c \in CostInputs : Do(u, select_cat_in_bag_cost(GS, u, c))
    \/ \E u \in UserIds : Do(u, get_score(GS, u))
    \/ \E u \in UserIds : Do(u, current_player_query(GS, u))
    \/ \E u \in UserIds, n \in NameInputs : Do(u, change_player(GS, u, n))
    \/ \E u \in UserIds, n \in NameInputs, v \in ScoreInputs :
           Do(u, update_score(GS, n, v, u))
    \/ \E u \in UserIds, t \in TopicInputs, c \in CostInputs :
           Do(u, hide_question(GS, t, c, u))

\* A timer as the session's caller makes it. The mark is history: it is set
\* on every timer still around when the session's state changes, so that an
\* unmarked timer is one scheduled on entering the present state.
FreshTimer == SomeTimer([stale |-> FALSE])
StaleTimer == SomeTimer([stale |-> TRUE])
Aged(item, changed) == IF item.some /\ changed THEN StaleTimer ELSE item

\* The sends the caller makes for the intents of one handler call, in order:
\* Some(timer) for Timeout, None for StopTimer.
timer_intents(res) ==
    LET kept == SelectSeq(res, LAMBDA r : r.t \in {"Timeout", "StopTimer"})
    IN [i \in 1..Len(kept) |-> IF kept[i].t = "Timeout" THEN FreshTimer ELSE NoTimer]

\* At most MaxPending items wait on the channel.
MaxPending == 2

\* The sends following a handler call that found the stream as ts.
SendIntents(ts, r) ==
    LET changed == r.gs.state # state
        waiting == [i \in 1..Len(ts.new_timers_stream) |->
                       Aged(ts.new_timers_stream[i], changed)]
    IN /\ Len(waiting) + Len(timer_intents(r.res)) <= MaxPending
       /\ new_timers_stream' = waiting \o timer_intents(r.res)
       /\ inflight_timer' = Aged(ts.inflight_timer, changed)
       /\ UNCHANGED <<submitted, events, cvars, mvars>>

\* Scores play no part in what is sent to the timer: here they are kept
\* within 0..MaxScore.
TimedStep(caller, r) ==
    /\ \A p \in DOMAIN r.gs.players : r.gs.players[p].score >= 0
    /\ GameStep(caller, r)
    /\ SendIntents(TS, r)
    /\ UNCHANGED episodes

TimedUpdate == AnyUpdate(TimedStep)

\* The stream is polled: nothing is ready, or the event is handled by timeout.
TimedPoll ==
    \E timer_poll \in TimerPolls :
        LET p == poll(TS, timer_poll)
        IN IF p.res = "Ready"
           THEN /\ GameStep(None, timeout(GS))
                /\ SendIntents(p.ts, timeout(GS))
                /\ UNCHANGED episodes
           ELSE /\ new_timers_stream' = p.ts.new_timers_stream
                /\ inflight_timer' = p.ts.inflight_timer
                /\ UNCHANGED <<gvars, picker, buzzer, submitted, events, cvars, mvars,
                               episodes>>

TimedNext == TimedUpdate \/ TimedPoll

TimedSpec == Init /\ [][TimedNext]_vars

\* The states left by a timeout.
TimedTags == {"BeforeQuestionAsked", "Falsestart", "CanAnswer"}

\* Every transition into a timed state is followed by the send of a timer, the
\* last thing sent, and the buzz into Answering by the send of a cancel.
C33_Scheduling ==
    [][/\ (state' # state /\ state'.tag \in TimedTags) =>
              /\ new_timers_stream' # << >>
              /\ new_timers_stream'[Len(new_timers_stream')] = FreshTimer
       /\ (state.tag = "CanAnswer" /\ state'.tag = "Answering") =>
              /\ new_timers_stream' # << >>
              /\ new_timers_stream'[Len(new_timers_stream')] = NoTimer]_vars

\* Whatever a poll delivers in a timed state was scheduled on entering it.
C33_FreshDelivery ==
    \A timer_poll \in TimerPolls :
        LET p == poll(TS, timer_poll)
        IN (p.res = "Ready" /\ state.tag \in TimedTags) => ~p.timer.stale

EntryTags == {"BeforeQuestionAsked", "WaitingForAuction", "CatInBagChoosingPlayer"}

\* A step in which a player buzzes in: message moves CanAnswer to Answering.
BuzzStep == state.tag = "CanAnswer" /\ state'.tag = "Answering"

\* C34: the per-question bookkeeping is reset for every new question: when a
\* question becomes live (entry into BeforeQuestionAsked, WaitingForAuction or
\* CatInBagChoosingPlayer) the answered set and the falsestarted set are both
\* empty, whatever happened on earlier questions; and the answered set is
\* exactly the set of players who have buzzed in on the current question:
\* each buzz adds the buzzing player and nothing else changes the set while
\* the question is live or being judged.
C34_Bookkeeping ==
    [][/\ (state' # state /\ state'.tag \in EntryTags) =>
              /\ players_answered_current_question' = {}
              /\ players_falsestarted' = {}
       /\ BuzzStep =>
              /\ buzzer' \in Registered
              /\ buzzer' \notin players_answered_current_question
              /\ players_answered_current_question' =
                     players_answered_current_question \cup {buzzer'}
       /\ (state.tag \in LiveTags /\ ~BuzzStep) =>
              players_answered_current_question' = players_answered_current_question]_vars

\* Both players have buzzed in on a question, after an earlier question on
\* which a player was judged.
C34_Witness ==
    /\ state.tag = "Answering"
    /\ players_answered_current_question = {2, 3}
    /\ \E p \in Registered : Score(GS, p) = -1
    /\ current_tour = 0
    /\ Available(GS, "Sport") = {}

\* The variants in which a question can be closed as unanswered.
ClosableTags == {"BeforeQuestionAsked", "Falsestart", "CanAnswer", "Answering"}

\* C35: whenever the state is BeforeQuestionAsked, Falsestart, CanAnswer or
\* Answering, player_which_chose_question is a registered player, so closing
\* the question as unanswered yields a defined current_player.
C35_ChooserSet ==
    state.tag \in ClosableTags =>
        /\ player_which_chose_question \in Registered
        /\ LET r == close_unanswered_question(GS, "closed")
           IN /\ ~r.gs.panicked
              /\ r.gs.current_player = player_which_chose_question
              /\ r.gs.current_player \in Registered

\* A cat-in-bag question is being answered by the player it was given to.
C35_Witness ==
    /\ state.tag = "Answering"
    /\ ~state.anyone
    /\ state.question = is_cat_in_bag("Movies", 1).question
    /\ player_which_chose_question \in Registered

\* C36: whenever the state is CanAnswer the answered set is a proper subset
\* of the registered players (someone has not been judged on this question
\* yet), and whenever the state is Answering with anyone-can-answer set the
\* answered set is not empty.
C36_AnsweredSet ==
    /\ state.tag = "CanAnswer" =>
           /\ players_answered_current_question \subseteq Registered
           /\ players_answered_current_question # Registered
    /\ (state.tag = "Answering" /\ state.anyone) =>
           players_answered_current_question # {}

\* The question is open again after one of the two players was judged wrong.
C36_Witness ==
    /\ state.tag = "CanAnswer"
    /\ Cardinality(Registered) = 2
    /\ Cardinality(players_answered_current_question) = 1

\* ------------------------------------------------- one live question

\* The players of a game: one, or two.
Lineups == { <<[id |-> 2, name |-> "new_1"]>>,
             <<[id |-> 2, name |-> "new_1"], [id |-> 3, name |-> "new_2"]>> }

RECURSIVE joined(_, _)
\* The session after the players of a lineup have joined, in order.
joined(S, lineup) ==
    IF lineup = << >> THEN S
    ELSE joined(add_player(S, lineup[1].id, lineup[1].name).gs, Tail(lineup))

\* The session in which the player with the turn has just picked (topic, cost)
\* in the given tour: the players join, the admin starts the game, moves to
\* the tour and asks for the next question, the player picks topic and cost.
picked(lineup, first, tour, topic, cost) ==
    LET s1 == joined(NewGameState, lineup)
        s2 == start(s1, admin_user, first).gs
        s3 == IF tour = 0 THEN s2 ELSE next_tour(s2, admin_user).gs
        s4 == next_question(s3, admin_user).gs
        s5 == select_topic(s4, topic, s4.current_player).gs
    IN select_question(s5, topic, cost, s5.current_player)

\* A question has just become live in BeforeQuestionAsked, with the timer
\* that select_question asked for on its way to the TimeoutStream.
LiveInit ==
    /\ \E lineup \in Lineups, tour \in 0..(Len(tours) - 1),
          topic \in StorageTopics, cost \in 1..questions_per_topic :
          \E first \in {lineup[i].id : i \in 1..Len(lineup)} :
              LET r == picked(lineup, first, tour, topic, cost)
              IN /\ r.gs.state.tag = "BeforeQuestionAsked"
                 /\ state = r.gs.state
                 /\ players = r.gs.players
                 /\ current_player = r.gs.current_player
                 /\ player_which_chose_question = r.gs.player_which_chose_question
                 /\ questions = r.gs.questions
                 /\ players_falsestarted = r.gs.players_falsestarted
                 /\ players_answered_current_question =
                        r.gs.players_answered_current_question
                 /\ current_tour = r.gs.current_tour
                 /\ current_multiplier = r.gs.current_multiplier
                 /\ panicked = r.gs.panicked
                 /\ picker = r.gs.current_player
                 /\ new_timers_stream = timer_intents(r.res)
    /\ buzzer = None
    /\ inflight_timer = NoTimer
    /\ submitted = << >>
    /\ events = << >>
    /\ call = None
    /\ result = NotCalled
    /\ NoThreads
    /\ NoEpisodes

\* A handler call while the question is live: the session becomes what the
\* handler returns, its timer intents are sent, and an entry into Answering
\* is counted.
LiveStep(caller, ts, r) ==
    /\ Become(caller, r)
    /\ SendIntents(ts, r)
    /\ episodes' = IF state.tag # "Answering" /\ r.gs.state.tag = "Answering"
                    THEN episodes + 1 ELSE episodes

\* Any user writes to the chat.
LiveMessage == \E u \in UserIds : LiveStep(u, TS, message(GS, u))

\* The admin judges the answer.
LiveYes == LiveStep(admin_user, TS, yes_reply(GS, admin_user))
LiveNo == LiveStep(admin_user, TS, no_reply(GS, admin_user))

\* The event loop polls the stream and the timer in flight has not run out.
LiveWait ==
    LET p == poll(TS, "NotReady")
    IN /\ new_timers_stream' = p.ts.new_timers_stream
       /\ inflight_timer' = p.ts.inflight_timer
       /\ UNCHANGED <<gvars, picker, buzzer, submitted, events, cvars, mvars, episodes>>

\* The event loop polls the stream and the timer in flight has run out.
LiveFire ==
    LET p == poll(TS, "Ready")
    IN /\ p.res = "Ready"
       /\ LiveStep(None, p.ts, timeout(GS))

LiveNext == LiveMessage \/ LiveYes \/ LiveNo \/ LiveWait \/ LiveFire

\* The event loop keeps polling, a timer in flight runs out, and the admin
\* answers every judgment prompt.
LiveSpec ==
    /\ LiveInit
    /\ [][LiveNext]_vars
    /\ WF_vars(LiveWait)
    /\ WF_vars(LiveFire)
    /\ WF_vars(LiveYes \/ LiveNo)

C37_Terminates == (state.tag = "BeforeQuestionAsked") ~> (state = Pause)

C37_Episodes == episodes <= Cardinality(Registered)

\* C37: every live automatic question terminates: from BeforeQuestionAsked,
\* with every scheduled timeout delivered unless cancelled and the admin
\* answering every judgment prompt with yes_reply or no_reply (and nothing
\* else), the state eventually reaches Pause, after at most as many Answering
\* episodes as there are registered players.
C37_LiveQuestionTerminates == C37_Terminates /\ []C37_Episodes

\* The question was closed after both players had answered it wrong.
C37_Witness ==
    /\ state = Pause
    /\ episodes = 2
    /\ Cardinality(Registered) = 2
    /\ \A p \in Registered : Score(GS, p) < 0

\* select_question accepted the pick of (topic, cost): it announces the
\* question, which is in play (or, for a manual one, handed to the admin in
\* Pause), and its cell has left the board.
Picked(S, r, topic, cost) ==
    /\ ~r.gs.panicked
    /\ r.res # << >>
    /\ r.res[1] = SendTextToMainChat("playing topic and cost")
    /\ r.gs.state.tag \in LiveTags \cup {"Pause"}
    /\ cost \notin Available(r.gs, topic)
    /\ \A t \in StorageTopics :
           Available(r.gs, t) = Available(S, t) \ (IF t = topic THEN {cost} ELSE {})

\* C38: in WaitingForQuestion, select_question by current_player succeeds for
\* any (topic, cost) available on the board, whichever topic was passed to the
\* preceding select_topic: the session does not remember the chosen topic, so
\* the question played may come from another topic than the one whose costs
\* were offered.
C38_AnyTopic ==
    /\ state.tag = "WaitingForQuestion" =>
           \A t \in StorageTopics : \A c \in Available(GS, t) :
               Picked(GS, select_question(GS, t, c, current_player), t, c)
    /\ state.tag = "WaitingForTopic" =>
           \A offered \in StorageTopics :
               Available(GS, offered) # {} =>
                   LET chosen == select_topic(GS, offered, current_player).gs
                   IN /\ chosen.state = WaitingForQuestion
                      /\ \A other \in StorageTopics :
                             Available(GS, other) # {} =>
                                 select_topic(GS, other, current_player).gs = chosen
                      /\ \A t \in StorageTopics : \A c \in Available(chosen, t) :
                             Picked(chosen,
                                    select_question(chosen, t, c, current_player), t, c)

\* A topic has been chosen while two topics still have questions.
C38_Witness ==
    /\ state.tag = "WaitingForQuestion"
    /\ Available(GS, "Sport") # {}
    /\ Available(GS, "Movies") # {}

\* The tour index has gone past the last tour.
PastLastTour == current_tour >= Len(tours)

\* Past the last tour the board is empty: next_question offers no topics,
\* select_topic is rejected whatever the topic and the caller, and another
\* next_tour leaves the board empty and the multiplier alone.
C39_EmptyBoard ==
    PastLastTour =>
        /\ ~panicked
        /\ questions = << >>
        /\ (state.tag \in {"Pause", "WaitingForTopic"} /\ current_player # None) =>
               LET r == next_question(GS, admin_user)
               IN /\ ~r.gs.panicked
                  /\ r.gs.state = WaitingForTopic
                  /\ r.res[2] = ChooseTopic(players[current_player].name, {})
        /\ \A t \in TopicInputs, u \in UserIds :
               select_topic([GS EXCEPT !.state = WaitingForTopic], t, u) =
                   Ret([GS EXCEPT !.state = WaitingForTopic], << >>)
        /\ LET r == next_tour([GS EXCEPT !.state = Pause], admin_user)
           IN /\ ~r.gs.panicked
              /\ r.gs.current_tour = current_tour + 1
              /\ r.gs.questions = << >>
              /\ r.gs.current_multiplier = current_multiplier

\* The step that leaves the last tour increments the index, empties the
\* board and keeps the multiplier.
C39_LeavingLastTour ==
    [][(current_tour = Len(tours) - 1 /\ current_tour' # current_tour) =>
          /\ current_tour' = Len(tours)
          /\ questions' = << >>
          /\ current_multiplier' = current_multiplier
          /\ ~panicked']_vars

\* C39: next_tour issued when the active tour is the last one still
\* increments the tour index; the board then becomes empty while the cost
\* multiplier keeps its previous value, so next_question offers no topics and
\* every select_topic is rejected from then on, without any crash; further
\* next_tour calls keep the board empty.
C39_PastLastTour == C39_LeavingLastTour /\ []C39_EmptyBoard

\* After the last tour was left, the admin asked for the next question.
C39_Witness ==
    /\ PastLastTour
    /\ state = WaitingForTopic
    /\ current_player # None
    /\ current_multiplier = tours[Len(tours)].multiplier

\* ------------------------------------- main.rs: the threaded timer path

\* enum State of main.rs; CanAnswer carries the id of the timer that opened it.
MainWaitingForPlayersToJoin == [tag |-> "WaitingForPlayersToJoin"]
MainWaitingForQuestion == [tag |-> "WaitingForQuestion"]
MainFalsestart == [tag |-> "Falsestart"]
MainCanAnswer(timer_id) == [tag |-> "CanAnswer", timer_id |-> timer_id]
MainAnswering == [tag |-> "Answering"]

\* val == State::CanAnswer(timer_id)
IsCanAnswer(val, timer_id) == val.tag = "CanAnswer" /\ val.timer_id = timer_id

\* At most MaxThreads timer threads are started.
MaxThreads == 3

\* The handler's own variables are kept in the session's variables of the
\* same meaning: players, current_player, players_answered_current_question
\* (players_already_answered) and buzzer (the player whose yes/no button is the
\* current one, None when the last button was used). Scores and the rest of
\* the session play no part here.
HandlerUnchanged ==
    UNCHANGED <<state, player_which_chose_question, questions, players_falsestarted,
                current_tour, current_multiplier, panicked, picker, cvars, tvars,
                episodes>>

\* start_timer: the thread gets the present global_timer_id, which is then
\* incremented; the thread has not run yet.
start_timer(timer_func) ==
    /\ global_timer_id < MaxThreads
    /\ threads' = Append(threads, [timer_func |-> timer_func,
                                   timer_id |-> global_timer_id,
                                   pc |-> "spawned"])
    /\ global_timer_id' = global_timer_id + 1

\* "/checkbutton", accepted in every state.
CheckButton ==
    /\ start_timer("timer_full_question")
    /\ UNCHANGED <<shared_state, players, current_player,
                   players_answered_current_question, buzzer>>
    /\ HandlerUnchanged

\* "/join name" while waiting for players.
MainJoin ==
    /\ shared_state.tag = "WaitingForPlayersToJoin"
    /\ \E j \in JoinInputs :
           /\ j[1] \notin DOMAIN players
           /\ \A p \in DOMAIN players : players[p].name # j[2]
           /\ players' = [p \in DOMAIN players \cup {j[1]} |->
                             IF p = j[1] THEN [name |-> j[2], score |-> 0]
                             ELSE players[p]]
    /\ UNCHANGED <<shared_state, current_player, players_answered_current_question,
                   buzzer, mvars>>
    /\ HandlerUnchanged

\* The admin's begin command with at least one player.
MainBegin ==
    /\ shared_state.tag = "WaitingForPlayersToJoin"
    /\ DOMAIN players # {}
    /\ \E first \in DOMAIN players : current_player' = first
    /\ shared_state' = MainWaitingForQuestion
    /\ UNCHANGED <<players, players_answered_current_question, buzzer,
                   global_timer_id, threads>>
    /\ HandlerUnchanged

\* A text message in CanAnswer from somebody who has not answered yet.
MainBuzz ==
    /\ shared_state.tag = "CanAnswer"
    /\ \E u \in UserIds :
           /\ u \notin players_answered_current_question
           /\ current_player' = u
           /\ players_answered_current_question' =
                  players_answered_current_question \cup {u}
           /\ buzzer' = u
    /\ shared_state' = MainAnswering
    /\ UNCHANGED <<players, global_timer_id, threads>>
    /\ HandlerUnchanged

\* The admin presses the current Yes button.
MainYes ==
    /\ current_player # None
    /\ buzzer # None
    /\ current_player \in DOMAIN players
    /\ players_answered_current_question' = {}
    /\ buzzer' = None
    /\ shared_state' = MainWaitingForQuestion
    /\ UNCHANGED <<players, current_player, global_timer_id, threads>>
    /\ HandlerUnchanged

\* The admin presses the current No button.
MainNo ==
    /\ current_player # None
    /\ buzzer # None
    /\ buzzer' = IF current_player \in DOMAIN players THEN None ELSE buzzer
    /\ start_timer("timer_question_after_incorrect_answer")
    /\ UNCHANGED <<shared_state, players, current_player,
                   players_answered_current_question>>
    /\ HandlerUnchanged

\* The current player presses a question button in WaitingForQuestion.
MainQuestion ==
    /\ current_player # None
    /\ shared_state.tag = "WaitingForQuestion"
    /\ start_timer("timer_full_question")
    /\ UNCHANGED <<shared_state, players, current_player,
                   players_answered_current_question, buzzer>>
    /\ HandlerUnchanged

\* One step of timer thread i, between two acquisitions of the lock:
\*   spawned  -> the first write (Falsestart, or CanAnswer(timer_id) after an
\*               incorrect answer);
\*   sleeping -> timer_full_question writes CanAnswer(timer_id);
\*   waiting  -> the state is read and compared with CanAnswer(timer_id);
\*   sending  -> the message is out and WaitingForQuestion is written.
TimerThread(i) ==
    LET t == threads[i]
        at(pc) == [threads EXCEPT ![i].pc = pc]
    IN /\ \/ /\ t.pc = "spawned" /\ t.timer_func = "timer_full_question"
             /\ shared_state' = MainFalsestart
             /\ threads' = at("sleeping")
          \/ /\ t.pc = "spawned"
             /\ t.timer_func = "timer_question_after_incorrect_answer"
             /\ shared_state' = MainCanAnswer(t.timer_id)
             /\ threads' = at("waiting")
          \/ /\ t.pc = "sleeping"
             /\ shared_state' = MainCanAnswer(t.timer_id)
             /\ threads' = at("waiting")
          \/ /\ t.pc = "waiting"
             /\ shared_state' = shared_state
             /\ threads' = at(IF IsCanAnswer(shared_state, t.timer_id)
                              THEN "sending" ELSE "exited")
          \/ /\ t.pc = "sending"
             /\ shared_state' = MainWaitingForQuestion
             /\ threads' = at("exited")
       /\ UNCHANGED <<global_timer_id, players, current_player,
                      players_answered_current_question, buzzer>>
       /\ HandlerUnchanged

TimerThreads == \E i \in 1..Len(threads) : TimerThread(i)

ThreadsNext ==
    \/ CheckButton \/ MainJoin \/ MainBegin \/ MainBuzz \/ MainYes \/ MainNo
    \/ MainQuestion \/ TimerThreads

ThreadsSpec == Init /\ [][ThreadsNext]_vars

\* Thread i takes a step.
Runs(i) == Len(threads') = Len(threads) /\ threads'[i] # threads[i]

\* Thread i is the one started last.
IsCurrent(i) == threads[i].timer_id + 1 = global_timer_id

\* C40: in the threaded timer path of main.rs a timer thread that is no
\* longer current has no side effects: in every interleaving of timer threads
\* with the update handler, only the thread whose id equals the id in the
\* current CanAnswer(timer_id) state moves the shared state to
\* WaitingForQuestion, and a timer thread never overwrites a state (Answering
\* set by a buzz, or CanAnswer of a newer timer) written after its own check.
C40_Original ==
    [][\A i \in 1..Len(threads) :
           Runs(i) =>
               /\ ~IsCurrent(i) => shared_state' = shared_state
               /\ threads[i].pc = "sending" =>
                      IsCanAnswer(shared_state, threads[i].timer_id)]_vars

\* A thread has passed its check and is about to write WaitingForQuestion
\* while a buzz has already moved the state to Answering.
C40_Witness ==
    \E i \in 1..Len(threads) :
        /\ threads[i].pc = "sending"
        /\ shared_state = MainAnswering


====
